---- MODULE Spec2Model ----
(***************************************************************************)
(* Buffett/Lynch 2.0 back-testing core: the regime-aware order generator   *)
(* (buffett_lynch/execution_engine.py), the day-by-day simulation loop     *)
(* (buffett_lynch/backtester.py), the quality weighting of the picks       *)
(* (buffett_lynch/portfolio_manager.py), the fundamental scorer            *)
(* (buffett_lynch/fundamental_scoring.py) and the currency conversion      *)
(* (buffett_lynch/currency_engine.py).                                     *)
(*                                                                         *)
(* Representation choices:                                                 *)
(*  - an ISO date string "YYYY-MM-DD" is the tuple <<Y, M, D>>; the        *)
(*    lexicographic order of the strings is the lexicographic order of the *)
(*    tuples, date[:4] is the first component and datetime.fromisoformat   *)
(*    reads the three components;                                          *)
(*  - a Python float is an exact rational [n |-> _, d |-> _] in lowest     *)
(*    terms; binary rounding is modelled for the BUY arithmetic of the     *)
(*    fill step only (FloatBuy), with a short significand;                 *)
(*  - a dict is a sequence of entries in insertion order;                  *)
(*  - an Optional value is <<>> (None) or <<v>>.                           *)
(***************************************************************************)
EXTENDS Integers, Sequences, FiniteSets, TLC

VARIABLES
    pc,               \* position of Backtester.run / of the function under test
    cfg,              \* PortfolioConfig of the ExecutionEngine
    spy_prices,       \* benchmark bars, List[PriceBar]
    price_history,    \* symbol -> List[PriceBar]
    top100_by_year,   \* year -> List[str]
    contributions,    \* BacktestConfig.contributions: date -> amount
    base_currency,    \* BacktestConfig.base_currency, also CurrencyEngine.base_currency
    fundamentals,     \* symbol -> List[ScoredCompany]
    fx_history,       \* pair -> List[PriceBar]
    current_scores,   \* List[ScoredCompany]
    regime_map,       \* result of bull_bear(spy_prices)
    rebalance_dates,  \* result of _quarter_starts
    day,              \* index into spy_dates of the day being simulated
    regime,           \* regime_map.get(date) of that day (Optional)
    rebalance_due,    \* date in rebalance_dates, for that day
    orders,           \* orders of that day not yet filled
    emitted,          \* orders returned by generate_orders for that day
    holdings,         \* Dict[str, Position]
    currency_map,     \* Dict[str, str]
    capital_pln,      \* available cash
    equity_curve,     \* List[Tuple[str, float]]
    prev_value,
    daily_returns,
    bull_days,
    bear_days,
    transactions,
    call,             \* arguments of a function applied on its own
    ret               \* its result

vars == <<pc, cfg, spy_prices, price_history, top100_by_year, contributions,
          base_currency, fundamentals, fx_history, current_scores,
          regime_map, rebalance_dates, day, regime, rebalance_due, orders,
          emitted, holdings, currency_map, capital_pln, equity_curve,
          prev_value, daily_returns, bull_days, bear_days, transactions,
          call, ret>>

(***************************************************************************)
(* Bounds of the model                                                     *)
(***************************************************************************)
MaxDays == 3          \* longest benchmark calendar of a simulated run
MaxClose == 2         \* closes are drawn from 1..MaxClose
MaxSchedLen == 3      \* longest free date list handed to _quarter_starts
MaxHeld == 2          \* most positions in a drawn holdings mapping
MaxPicks == 2         \* most picks handed to generate_orders

(***************************************************************************)
(* Optional values and generic sequence helpers                            *)
(***************************************************************************)
None == <<>>
Some(v) == <<v>>
IsNone(o) == o = <<>>

Range(s) == {s[i] : i \in 1..Len(s)}

RECURSIVE SumSeq(_)
SumSeq(s) == IF s = <<>> THEN 0 ELSE Head(s) + SumSeq(Tail(s))

(***************************************************************************)
(* Exact rationals standing for Python floats                              *)
(***************************************************************************)
Abs(x) == IF x < 0 THEN -x ELSE x

RECURSIVE Gcd(_, _)
Gcd(a, b) == IF b = 0 THEN a ELSE Gcd(b, a % b)

RNorm(n, d) ==
    LET dd == IF d < 0 THEN -d ELSE d
        nn == IF d < 0 THEN -n ELSE n
        g  == Gcd(Abs(nn), dd)
    IN  [n |-> nn \div g, d |-> dd \div g]

R(i) == [n |-> i, d |-> 1]
RAdd(a, b) == RNorm(a.n * b.d + b.n * a.d, a.d * b.d)
RSub(a, b) == RNorm(a.n * b.d - b.n * a.d, a.d * b.d)
RMul(a, b) == RNorm(a.n * b.n, a.d * b.d)
RDiv(a, b) == RNorm(a.n * b.d, a.d * b.n)
RLt(a, b) == a.n * b.d < b.n * a.d
RLe(a, b) == a.n * b.d <= b.n * a.d
RGe(a, b) == RLe(b, a)
RGt(a, b) == RLt(b, a)
RZero(a) == a.n = 0

(***************************************************************************)
(* Dates                                                                   *)
(***************************************************************************)
Year(date) == date[1]
Month(date) == date[2]
DayOfMonth(date) == date[3]

\* str comparison of two ISO dates
DateLt(a, b) ==
    \/ a[1] < b[1]
    \/ a[1] = b[1] /\ a[2] < b[2]
    \/ a[1] = b[1] /\ a[2] = b[2] /\ a[3] < b[3]

DateLe(a, b) == a = b \/ DateLt(a, b)

IsLeap(y) == (y % 4 = 0) /\ ((y % 100 # 0) \/ (y % 400 = 0))

DaysInMonth(y, m) ==
    IF m = 2 THEN (IF IsLeap(y) THEN 29 ELSE 28)
    ELSE IF m \in {4, 6, 9, 11} THEN 30 ELSE 31

RECURSIVE DaysBeforeMonth(_, _)
DaysBeforeMonth(y, m) ==
    IF m = 1 THEN 0 ELSE DaysBeforeMonth(y, m - 1) + DaysInMonth(y, m - 1)

\* datetime.fromisoformat(date).toordinal()
Ordinal(date) ==
    LET y == Year(date) - 1
    IN  y * 365 + (y \div 4) - (y \div 100) + (y \div 400)
        + DaysBeforeMonth(Year(date), Month(date)) + DayOfMonth(date)

\* (datetime.fromisoformat(a) - datetime.fromisoformat(b)).days
DaysBetween(a, b) == Ordinal(a) - Ordinal(b)

\* sorted(dates): ascending, stable
RECURSIVE InsertDate(_, _)
InsertDate(date, s) ==
    IF s = <<>> THEN <<date>>
    ELSE IF DateLt(date, Head(s)) THEN <<date>> \o s
    ELSE <<Head(s)>> \o InsertDate(date, Tail(s))

RECURSIVE SortedDates(_)
SortedDates(s) ==
    IF s = <<>> THEN <<>>
    ELSE InsertDate(s[Len(s)], SortedDates(SubSeq(s, 1, Len(s) - 1)))

(***************************************************************************)
(* Dicts as insertion-ordered sequences of [key, val] entries              *)
(***************************************************************************)
Keys(dict) == {dict[i].key : i \in 1..Len(dict)}
HasKey(dict, k) == k \in Keys(dict)
Lookup(dict, k) == dict[CHOOSE i \in 1..Len(dict) : dict[i].key = k].val
Get(dict, k) == IF HasKey(dict, k) THEN Some(Lookup(dict, k)) ELSE None
Values(dict) == [i \in 1..Len(dict) |-> dict[i].val]

\* dict[k] = v : an existing key keeps its place, a new key goes last
Put(dict, k, v) ==
    IF HasKey(dict, k)
    THEN [i \in 1..Len(dict) |->
            IF dict[i].key = k THEN [key |-> k, val |-> v] ELSE dict[i]]
    ELSE Append(dict, [key |-> k, val |-> v])

\* del dict[k]
Del(dict, k) == SelectSeq(dict, LAMBDA e : e.key # k)

(***************************************************************************)
(* models.py                                                               *)
(***************************************************************************)
PriceBar(date, close) == [date |-> date, close |-> close]

\* entry_date "" is <<>>
Position(symbol, quantity, currency, weight, cost_basis, entry_date) ==
    [symbol |-> symbol, quantity |-> quantity, currency |-> currency,
     weight |-> weight, cost_basis |-> cost_basis, entry_date |-> entry_date]

Order(symbol, action, quantity, currency, reason, price) ==
    [symbol |-> symbol, action |-> action, quantity |-> quantity,
     currency |-> currency, reason |-> reason, price |-> price]

ScoredCompany(symbol, quality, value, growth, risk, total, sector, market_cap, period) ==
    [symbol |-> symbol, quality |-> quality, value |-> value, growth |-> growth,
     risk |-> risk, total |-> total, sector |-> sector,
     market_cap |-> market_cap, period |-> period]

(***************************************************************************)
(* config.py                                                               *)
(***************************************************************************)
\* PortfolioConfig(): the dataclass has exactly these four fields
PortfolioConfig(top_n, sma_lookback) ==
    [top_n |-> top_n,
     min_value_score |-> 40,
     sma_lookback |-> sma_lookback,
     bear_etfs |-> << [key |-> "EUR", val |-> "ZPR1.DE"],
                      [key |-> "USD", val |-> "SHV"] >>]

\* RebalancingConfig.max_position = 0.25
max_position == [n |-> 1, d |-> 4]

\* BacktestConfig.initial_capital (scaled: one unit is 1000.0)
initial_capital == 100

\* hasattr(obj, name)
HasAttr(obj, name) == name \in DOMAIN obj

(***************************************************************************)
(* execution_engine.py                                                     *)
(***************************************************************************)
Min(a, b) == IF a < b THEN a ELSE b

\* s[:k] for k >= 0
Take(s, k) == SubSeq(s, 1, Min(k, Len(s)))

\* the dict sma() has built after the first i bars; lookback >= 1
RECURSIVE smaUpTo(_, _, _)
smaUpTo(prices, lookback, i) ==
    IF i = 0 THEN <<>>
    ELSE LET before == smaUpTo(prices, lookback, i - 1)
             window == SubSeq(prices, (IF i > lookback THEN i - lookback + 1 ELSE 1), i)
         IN  IF Len(window) = lookback
             THEN Put(before, prices[i].date,
                      RNorm(SumSeq([j \in 1..Len(window) |-> window[j].close]), lookback))
             ELSE before

sma(prices, lookback) == smaUpTo(prices, lookback, Len(prices))

\* a variant of bull_bearUpTo that classifies with > instead of >=
RECURSIVE bull_bearUpToStrict(_, _, _)
bull_bearUpToStrict(prices, trend, i) ==
    IF i = 0 THEN <<>>
    ELSE LET before == bull_bearUpToStrict(prices, trend, i - 1)
             bar == prices[i]
             avg == Get(trend, bar.date)
         IN  IF IsNone(avg) THEN before
             ELSE Put(before, bar.date,
                      IF RGt(R(bar.close), avg[1]) THEN "bull" ELSE "bear")

\* the regime dict after the first i bars
RECURSIVE bull_bearUpTo(_, _, _)
bull_bearUpTo(prices, trend, i) ==
    IF i = 0 THEN <<>>
    ELSE LET before == bull_bearUpTo(prices, trend, i - 1)
             bar == prices[i]
             avg == Get(trend, bar.date)
         IN  IF IsNone(avg) THEN before
             ELSE Put(before, bar.date,
                      IF RGe(R(bar.close), avg[1]) THEN "bull" ELSE "bear")

bull_bear(c, prices) ==
    bull_bearUpTo(prices, sma(prices, c.sma_lookback), Len(prices))

\* ExecutionEngine.bear_asset(base): base is an Optional currency
bear_asset(c, base) ==
    IF ~IsNone(base) /\ HasKey(c.bear_etfs, base[1])
    THEN <<Lookup(c.bear_etfs, base[1]), base[1]>>
    ELSE IF HasKey(c.bear_etfs, "USD")
    THEN <<Lookup(c.bear_etfs, "USD"), "USD">>
    ELSE <<c.bear_etfs[1].val, c.bear_etfs[1].key>>

RECURSIVE Concat(_)
Concat(ss) == IF ss = <<>> THEN <<>> ELSE Head(ss) \o Concat(Tail(ss))

\* sorted(picks, key=lambda p: p.total, reverse=True): descending, stable
RECURSIVE InsertPick(_, _)
InsertPick(p, s) ==
    IF s = <<>> THEN <<p>>
    ELSE IF Head(s).total < p.total THEN <<p>> \o s
    ELSE <<Head(s)>> \o InsertPick(p, Tail(s))

RECURSIVE SortedPicks(_)
SortedPicks(s) ==
    IF s = <<>> THEN <<>>
    ELSE InsertPick(s[Len(s)], SortedPicks(SubSeq(s, 1, Len(s) - 1)))

\* {p.symbol: p for p in picks}
RECURSIVE PickMap(_)
PickMap(s) ==
    IF s = <<>> THEN <<>>
    ELSE Put(PickMap(SubSeq(s, 1, Len(s) - 1)), s[Len(s)].symbol, s[Len(s)])

\* sma_map.get(symbol, {}).get(date)
SmaAt(sma_map, symbol, date) ==
    IF HasKey(sma_map, symbol) THEN Get(Lookup(sma_map, symbol), date) ELSE None

\* a variant of BearOrders that buys the bear asset although it is held
BearOrdersRebuy(price_map, portfolio, bear) ==
    LET bear_symbol == bear[1]
        bear_currency == bear[2]
        positions == Values(portfolio)
        sells == Concat([i \in 1..Len(positions) |->
                    IF positions[i].symbol = bear_symbol THEN <<>>
                    ELSE << Order(positions[i].symbol, "SELL", positions[i].quantity,
                                  positions[i].currency, "Bear regime", None) >>])
        price == Get(price_map, bear_symbol)
        buys == IF ~IsNone(price) /\ price[1] # 0
                THEN << Order(bear_symbol, "BUY", R(0), bear_currency,
                              "Bear regime T-Bill", price) >>
                ELSE <<>>
    IN  sells \o buys

\* lines 62-80: the bear branch
BearOrders(price_map, portfolio, bear) ==
    LET bear_symbol == bear[1]
        bear_currency == bear[2]
        positions == Values(portfolio)
        sells == Concat([i \in 1..Len(positions) |->
                    IF positions[i].symbol = bear_symbol THEN <<>>
                    ELSE << Order(positions[i].symbol, "SELL", positions[i].quantity,
                                  positions[i].currency, "Bear regime", None) >>])
        price == Get(price_map, bear_symbol)
        buys == IF ~IsNone(price) /\ price[1] # 0 /\ ~HasKey(portfolio, bear_symbol)
                THEN << Order(bear_symbol, "BUY", R(0), bear_currency,
                              "Bear regime T-Bill", price) >>
                ELSE <<>>
    IN  sells \o buys

\* lines 89-107: the exit checks of one held position, first match wins
ExitOrder(c, date, top100, price_map, sma_map, pick_map, top_hold_symbols, pos) ==
    LET sma_value == SmaAt(sma_map, pos.symbol, date)
        price == IF HasKey(price_map, pos.symbol) THEN Lookup(price_map, pos.symbol) ELSE 0
        pick == Get(pick_map, pos.symbol)
        sell(reason) == << Order(pos.symbol, "SELL", pos.quantity, pos.currency, reason, None) >>
    IN  IF pos.symbol \notin Range(top100) THEN sell("Lost TOP100")
        ELSE IF ~IsNone(pick) /\ pick[1].value < c.min_value_score
             THEN sell("ValueScore guardrail")
        ELSE IF pos.symbol \notin top_hold_symbols THEN sell("Below TOP3N buffer")
        ELSE IF ~IsNone(sma_value) /\ RLt(R(price), sma_value[1])
             THEN sell("Price below SMA200")
        ELSE <<>>

\* lines 110-120: the entry check of one buy candidate
EntryOrder(c, date, price_map, sma_map, portfolio, pick) ==
    LET sma_value == SmaAt(sma_map, pick.symbol, date)
        price == Get(price_map, pick.symbol)
    IN  IF IsNone(price) \/ IsNone(sma_value) THEN <<>>
        ELSE IF RLe(R(price[1]), sma_value[1]) THEN <<>>
        ELSE IF pick.value < c.min_value_score THEN <<>>
        ELSE IF ~HasKey(portfolio, pick.symbol)
             THEN << Order(pick.symbol, "BUY", R(0), "USD", "Enter TOP15", price) >>
        ELSE <<>>

\* lines 82-122: the bull branch, given the value read from cfg.hold_multiplier
BullOrders(c, hold_multiplier, date, picks, top100, price_map, sma_map, portfolio) ==
    LET sorted_picks == SelectSeq(SortedPicks(picks), LAMBDA p : p.symbol \in Range(top100))
        top_buy == Take(sorted_picks, c.top_n)
        top_hold == Take(sorted_picks, hold_multiplier * c.top_n)
        top_hold_symbols == {top_hold[i].symbol : i \in 1..Len(top_hold)}
        pick_map == PickMap(sorted_picks)
        positions == Values(portfolio)
        sells == Concat([i \in 1..Len(positions) |->
                    ExitOrder(c, date, top100, price_map, sma_map, pick_map,
                              top_hold_symbols, positions[i])])
        buys == Concat([i \in 1..Len(top_buy) |->
                    EntryOrder(c, date, price_map, sma_map, portfolio, top_buy[i])])
    IN  sells \o buys

Returned(os) == [exc |-> None, orders |-> os]
Raised(e) == [exc |-> Some(e), orders |-> <<>>]

\* a variant of generate_orders without the rebalance_due guard of lines 59-60
generate_orders_unguarded(c, date, picks, top100, spy_regime, price_map, sma_map, portfolio, bear, due) ==
    IF spy_regime = "bear"
    THEN Returned(BearOrders(price_map, portfolio,
                             IF IsNone(bear) THEN bear_asset(c, None) ELSE bear[1]))
    ELSE IF ~HasAttr(c, "hold_multiplier") THEN Raised("AttributeError")
    ELSE Returned(BullOrders(c, c.hold_multiplier, date, picks, top100,
                             price_map, sma_map, portfolio))

\* ExecutionEngine.generate_orders; bear is the Optional bear_asset argument.
\* Line 85 reads self.cfg.hold_multiplier: an attribute the configuration
\* does not have raises AttributeError before any bull order is built.
generate_orders(c, date, picks, top100, spy_regime, price_map, sma_map, portfolio, bear, due) ==
    IF ~due THEN Returned(<<>>)
    ELSE IF spy_regime = "bear"
    THEN Returned(BearOrders(price_map, portfolio,
                             IF IsNone(bear) THEN bear_asset(c, None) ELSE bear[1]))
    ELSE IF ~HasAttr(c, "hold_multiplier") THEN Raised("AttributeError")
    ELSE Returned(BullOrders(c, c.hold_multiplier, date, picks, top100,
                             price_map, sma_map, portfolio))

(***************************************************************************)
(* currency_engine.py                                                      *)
(***************************************************************************)
\* the close of the first bar of history dated date, if any
RECURSIVE FirstBarAt(_, _)
FirstBarAt(history, date) ==
    IF history = <<>> THEN None
    ELSE IF Head(history).date = date THEN Some(Head(history).close)
    ELSE FirstBarAt(Tail(history), date)

\* CurrencyEngine.fx_to_pln; the pair f"{currency}{base}" is <<currency, base>>
fx_to_pln(base, fx, date, currency) ==
    LET pair == <<currency, base>>
        history == IF HasKey(fx, pair) THEN Lookup(fx, pair) ELSE <<>>
        found == FirstBarAt(history, date)
    IN  IF ~IsNone(found) THEN R(found[1])
        ELSE IF currency = base THEN R(1) ELSE R(0)

\* CurrencyEngine.portfolio_to_pln over a dict symbol -> value
RECURSIVE portfolio_to_pln(_, _, _, _, _)
portfolio_to_pln(base, values, fx, date, cmap) ==
    IF values = <<>> THEN R(0)
    ELSE LET last == values[Len(values)]
             currency == IF HasKey(cmap, last.key) THEN Lookup(cmap, last.key) ELSE base
             rate == fx_to_pln(base, fx, date, currency)
         IN  RAdd(portfolio_to_pln(base, SubSeq(values, 1, Len(values) - 1), fx, date, cmap),
                  RMul(last.val, rate))

(***************************************************************************)
(* backtester.py                                                           *)
(***************************************************************************)
\* RebalancingConfig(): sma_lookback is scaled with the calendars of the model
rebalance_cfg ==
    [frequency |-> "quarterly", min_position |-> [n |-> 1, d |-> 50],
     max_position |-> max_position, max_sector_weight |-> [n |-> 3, d |-> 10],
     sma_lookback |-> 2]

\* a variant of QuarterKey that keys on the month
QuarterKeyByMonth(date) == <<Year(date), Month(date) - 1>>

\* lines 210-212: key = (dt.year, (dt.month - 1) // 3)
QuarterKey(date) == <<Year(date), (Month(date) - 1) \div 3>>

\* a variant of QuarterScan that keeps the latest date of a key instead of the first
RECURSIVE QuarterScanLatest(_, _, _)
QuarterScanLatest(sorted, seen, starts) ==
    IF sorted = <<>> THEN starts
    ELSE LET date == Head(sorted)
             key == QuarterKey(date)
         IN  IF key \notin seen
             THEN QuarterScanLatest(Tail(sorted), seen \cup {key}, Append(starts, date))
             ELSE QuarterScanLatest(Tail(sorted), seen,
                                    Append(SubSeq(starts, 1, Len(starts) - 1), date))

\* the loop of _quarter_starts over the sorted dates
RECURSIVE QuarterScan(_, _, _)
QuarterScan(sorted, seen, starts) ==
    IF sorted = <<>> THEN starts
    ELSE LET date == Head(sorted)
             key == QuarterKey(date)
         IN  IF key \notin seen
             THEN QuarterScan(Tail(sorted), seen \cup {key}, Append(starts, date))
             ELSE QuarterScan(Tail(sorted), seen, starts)

\* Backtester._quarter_starts
_quarter_starts(dates) == QuarterScan(SortedDates(dates), {}, <<>>)

fundamental_reasons ==
    {"Bear regime", "Lost TOP100", "ValueScore guardrail", "Below TOP3N buffer"}

\* a variant of _allow_sell that leaves "Below TOP3N buffer" to the holding period
\* and asks for more than 90 days
_allow_sell_strict(order, h, date) ==
    IF order.reason \in {"Bear regime", "Lost TOP100", "ValueScore guardrail"} THEN TRUE
    ELSE LET pos == Get(h, order.symbol)
         IN  IF IsNone(pos) \/ pos[1].entry_date = <<>> THEN TRUE
             ELSE DaysBetween(date, pos[1].entry_date) > 90

\* Backtester._allow_sell
_allow_sell(order, h, date) ==
    IF order.reason \in fundamental_reasons THEN TRUE
    ELSE LET pos == Get(h, order.symbol)
         IN  IF IsNone(pos) \/ pos[1].entry_date = <<>> THEN TRUE
             ELSE DaysBetween(date, pos[1].entry_date) >= 90

\* price_lookup[symbol].get(date): {bar.date: bar.close}, the last bar of a date wins
RECURSIVE LastBarAt(_, _)
LastBarAt(history, date) ==
    IF history = <<>> THEN None
    ELSE IF history[Len(history)].date = date THEN Some(history[Len(history)].close)
    ELSE LastBarAt(SubSeq(history, 1, Len(history) - 1), date)

\* Backtester._get_price
_get_price(ph, symbol, date) ==
    LET history == IF HasKey(ph, symbol) THEN Lookup(ph, symbol) ELSE <<>>
        price == LastBarAt(history, date)
    IN  IF ~IsNone(price) THEN price[1]
        ELSE IF history # <<>> THEN history[Len(history)].close ELSE 0

\* a variant of LatestScore that keeps the first eligible entry
LatestScoreFirst(eligible, best) == best

\* Backtester._scores_for_year
RECURSIVE LatestScore(_, _)
LatestScore(eligible, best) ==
    IF eligible = <<>> THEN best
    ELSE LatestScore(Tail(eligible),
                     IF Head(eligible).period > best.period THEN Head(eligible) ELSE best)

_scores_for_year(fund, year) ==
    Concat([i \in 1..Len(fund) |->
        LET eligible == SelectSeq(fund[i].val,
                                  LAMBDA sc : sc.market_cap > 0 /\ sc.period <= year)
        IN  IF eligible = <<>> THEN <<>>
            ELSE << LatestScore(Tail(eligible), Head(eligible)) >>])

\* {s: self._get_price(price_lookup, price_history, s, date) for s in top100}
RECURSIVE PriceMap(_, _, _)
PriceMap(ph, top100, date) ==
    IF top100 = <<>> THEN <<>>
    ELSE Put(PriceMap(ph, SubSeq(top100, 1, Len(top100) - 1), date),
             top100[Len(top100)], _get_price(ph, top100[Len(top100)], date))

\* {symbol: sma(prices, lookback) for symbol, prices in price_history.items()}
sma_cache(ph) ==
    [i \in 1..Len(ph) |->
        [key |-> ph[i].key, val |-> sma(ph[i].val, rebalance_cfg.sma_lookback)]]

\* a variant of FillOrder that fills a SELL whose price resolves to 0
FillOrderNoSkip(order, h, cash, cmap, ph, date) ==
    LET price == IF ~IsNone(order.price) /\ order.price[1] # 0
                 THEN order.price[1] ELSE _get_price(ph, order.symbol, date)
        same == [holdings |-> h, capital_pln |-> cash, currency_map |-> cmap]
    IN  IF price = 0 /\ order.action = "BUY" THEN same
        ELSE IF order.action = "SELL"
        THEN IF ~_allow_sell(order, h, date) THEN same
             ELSE IF HasKey(h, order.symbol)
             THEN [holdings |-> Del(h, order.symbol),
                   capital_pln |-> RAdd(cash, RMul(Lookup(h, order.symbol).quantity, R(price))),
                   currency_map |-> cmap]
             ELSE same
        ELSE LET quantity == RDiv(RMul(cash, rebalance_cfg.max_position), R(price))
             IN  [holdings |-> Put(h, order.symbol,
                                   Position(order.symbol, quantity, order.currency,
                                            rebalance_cfg.max_position, R(price), date)),
                  capital_pln |-> RSub(cash, RMul(quantity, R(price))),
                  currency_map |-> Put(cmap, order.symbol, order.currency)]

\* a variant of FillOrder whose BUY spends the whole cash
FillOrderAllCash(order, h, cash, cmap, ph, date) ==
    LET price == IF ~IsNone(order.price) /\ order.price[1] # 0
                 THEN order.price[1] ELSE _get_price(ph, order.symbol, date)
        same == [holdings |-> h, capital_pln |-> cash, currency_map |-> cmap]
    IN  IF price = 0 THEN same
        ELSE IF order.action = "SELL"
        THEN IF ~_allow_sell(order, h, date) THEN same
             ELSE IF HasKey(h, order.symbol)
             THEN [holdings |-> Del(h, order.symbol),
                   capital_pln |-> RAdd(cash, RMul(Lookup(h, order.symbol).quantity, R(price))),
                   currency_map |-> cmap]
             ELSE same
        ELSE LET quantity == RDiv(cash, R(price))
             IN  [holdings |-> Put(h, order.symbol,
                                   Position(order.symbol, quantity, order.currency,
                                            rebalance_cfg.max_position, R(price), date)),
                  capital_pln |-> RSub(cash, RMul(quantity, R(price))),
                  currency_map |-> Put(cmap, order.symbol, order.currency)]

\* a variant of FillOrder whose SELL credits the cash and keeps the position
FillOrderKeepsSold(order, h, cash, cmap, ph, date) ==
    LET price == IF ~IsNone(order.price) /\ order.price[1] # 0
                 THEN order.price[1] ELSE _get_price(ph, order.symbol, date)
        same == [holdings |-> h, capital_pln |-> cash, currency_map |-> cmap]
    IN  IF price = 0 THEN same
        ELSE IF order.action = "SELL"
        THEN IF ~_allow_sell(order, h, date) THEN same
             ELSE IF HasKey(h, order.symbol)
             THEN [holdings |-> h,
                   capital_pln |-> RAdd(cash, RMul(Lookup(h, order.symbol).quantity, R(price))),
                   currency_map |-> cmap]
             ELSE same
        ELSE LET quantity == RDiv(RMul(cash, rebalance_cfg.max_position), R(price))
             IN  [holdings |-> Put(h, order.symbol,
                                   Position(order.symbol, quantity, order.currency,
                                            rebalance_cfg.max_position, R(price), date)),
                  capital_pln |-> RSub(cash, RMul(quantity, R(price))),
                  currency_map |-> Put(cmap, order.symbol, order.currency)]

\* lines 112-132: the fill of one order
FillOrder(order, h, cash, cmap, ph, date) ==
    LET price == IF ~IsNone(order.price) /\ order.price[1] # 0
                 THEN order.price[1] ELSE _get_price(ph, order.symbol, date)
        same == [holdings |-> h, capital_pln |-> cash, currency_map |-> cmap]
    IN  IF price = 0 THEN same
        ELSE IF order.action = "SELL"
        THEN IF ~_allow_sell(order, h, date) THEN same
             ELSE IF HasKey(h, order.symbol)
             THEN [holdings |-> Del(h, order.symbol),
                   capital_pln |-> RAdd(cash, RMul(Lookup(h, order.symbol).quantity, R(price))),
                   currency_map |-> cmap]
             ELSE same
        ELSE LET quantity == RDiv(RMul(cash, rebalance_cfg.max_position), R(price))
             IN  [holdings |-> Put(h, order.symbol,
                                   Position(order.symbol, quantity, order.currency,
                                            rebalance_cfg.max_position, R(price), date)),
                  capital_pln |-> RSub(cash, RMul(quantity, R(price))),
                  currency_map |-> Put(cmap, order.symbol, order.currency)]

\* lines 134-138: cash plus the positions that have a price today
RECURSIVE MarkToMarket(_, _, _, _)
MarkToMarket(h, cash, ph, date) ==
    IF h = <<>> THEN cash
    ELSE LET pos == h[Len(h)].val
             day_price == _get_price(ph, h[Len(h)].key, date)
             rest == MarkToMarket(SubSeq(h, 1, Len(h) - 1), cash, ph, date)
         IN  IF day_price # 0 THEN RAdd(rest, RMul(pos.quantity, R(day_price))) ELSE rest

spy_dates == [i \in 1..Len(spy_prices) |-> spy_prices[i].date]
Today == spy_dates[day]

(***************************************************************************)
(* Inputs of a simulated run                                               *)
(***************************************************************************)
DatePool == << <<2020, 1, 2>>, <<2020, 3, 31>>, <<2020, 4, 1>>, <<2021, 1, 4>> >>

\* the strictly increasing index lists of length n over 1..m
RECURSIVE IncreasingFrom(_, _, _)
IncreasingFrom(lo, m, n) ==
    IF n = 0 THEN {<<>>}
    ELSE UNION {{<<i>> \o t : t \in IncreasingFrom(i + 1, m, n - 1)} : i \in lo..m}

\* benchmark bars: ordered by date, one bar per day
Calendars ==
    UNION {{[i \in 1..n |-> PriceBar(DatePool[idx[i]], closes[i])] :
                idx \in IncreasingFrom(1, Len(DatePool), n),
                closes \in [1..n -> 1..MaxClose]} : n \in 0..MaxDays}

Bars(dates, closes) == [i \in 1..Len(dates) |-> PriceBar(dates[i], closes[i])]

PriceHistories ==
    { <<>>,
      << [key |-> "AAA", val |-> Bars(DatePool, <<3, 2, 4, 5>>)],
         [key |-> "SHV", val |-> Bars(DatePool, <<2, 2, 4, 5>>)] >>,
      << [key |-> "SHV", val |-> Bars(<< <<2020, 4, 1>> >>, <<5>>)] >> }

Universes ==
    { <<>>,
      << [key |-> 2020, val |-> <<"AAA", "SHV">>],
         [key |-> 2021, val |-> <<"SHV">>] >> }

Contributions ==
    { <<>>, << [key |-> <<2020, 4, 1>>, val |-> R(20)] >> }

Score(symbol, value, total, period) ==
    ScoredCompany(symbol, 50, value, 50, 50, total, "Tech", 10, period)

Fundamentals ==
    { <<>>,
      << [key |-> "AAA", val |-> <<Score("AAA", 50, 70, 2019), Score("AAA", 30, 60, 2020)>>],
         [key |-> "BBB", val |-> <<Score("BBB", 50, 80, 2021)>>] >>,
      << [key |-> "AAA",
          val |-> << Score("AAA", 50, 70, 2019),
                     ScoredCompany("AAA", 50, 50, 50, 50, 60, "Tech", 0, 2020) >>] >> }

Currencies ==
    { [base |-> "PLN", fx |-> <<>>],
      [base |-> "PLN",
       fx |-> << [key |-> <<"PLN", "PLN">>, val |-> Bars(<< <<2020, 1, 2>> >>, <<2>>)] >>],
      [base |-> "PLN",
       fx |-> << [key |-> <<"USD", "PLN">>, val |-> Bars(DatePool, <<4, 4, 4, 4>>)] >>],
      [base |-> "USD", fx |-> <<>>],
      [base |-> "EUR", fx |-> <<>>] }

\* BacktestConfig.initial_capital: nothing to start with, or the default
InitialCapitals == {R(0), R(initial_capital)}

MaxLookback == 2      \* sma_lookback is drawn from 1..MaxLookback

Configs == {PortfolioConfig(1, lb) : lb \in 1..MaxLookback}

(***************************************************************************)
(* Backtester.run                                                          *)
(***************************************************************************)
NoCall == /\ call = <<>>

\* lines 59-82: the state on entry to the loop
Init ==
    /\ cfg \in Configs
    /\ spy_prices \in Calendars
    /\ price_history \in PriceHistories
    /\ top100_by_year \in Universes
    /\ contributions \in Contributions
    /\ fundamentals \in Fundamentals
    /\ \E c \in Currencies : base_currency = c.base /\ fx_history = c.fx
    /\ regime_map = bull_bear(cfg, spy_prices)
    /\ rebalance_dates = _quarter_starts([i \in 1..Len(spy_prices) |-> spy_prices[i].date])
    /\ equity_curve = <<>>
    /\ holdings = <<>>
    /\ currency_map = <<>>
    /\ daily_returns = <<>>
    /\ bull_days = 0
    /\ bear_days = 0
    /\ transactions = 0
    /\ current_scores = <<>>
    /\ capital_pln \in InitialCapitals
    /\ prev_value = capital_pln
    /\ day = 1
    /\ regime = None
    /\ rebalance_due = FALSE
    /\ orders = <<>>
    /\ emitted = <<>>
    /\ pc = "loop"
    /\ NoCall
    /\ ret = None

Inputs == <<cfg, spy_prices, price_history, top100_by_year, contributions,
            base_currency, fundamentals, fx_history, regime_map, rebalance_dates, call>>

\* lines 85-107 of one day, up to the return of generate_orders
DayRegime == Get(regime_map, Today)
DayTop100 == IF HasKey(top100_by_year, Year(Today))
             THEN Lookup(top100_by_year, Year(Today)) ELSE <<>>
DayScores == IF Today \in Range(rebalance_dates) \/ current_scores = <<>>
             THEN _scores_for_year(fundamentals, Year(Today)) ELSE current_scores
DayDue == Today \in Range(rebalance_dates)
\* a variant of DayOrders that takes a day without a regime for a bull day
DayOrdersBullByDefault ==
    generate_orders(cfg, Today, SortedPicks(DayScores), DayTop100,
                    IF IsNone(DayRegime) THEN "bull" ELSE DayRegime[1],
                    PriceMap(price_history, DayTop100, Today),
                    sma_cache(price_history), holdings, None, DayDue)

\* lines 96-107: the call of generate_orders with spy_regime = regime or "bear"
DayOrders ==
    generate_orders(cfg, Today, SortedPicks(DayScores), DayTop100,
                    IF IsNone(DayRegime) THEN "bear" ELSE DayRegime[1],
                    PriceMap(price_history, DayTop100, Today),
                    sma_cache(price_history), holdings, None, DayDue)

BeginDay ==
    /\ pc = "loop"
    /\ day <= Len(spy_prices)
    /\ regime' = DayRegime
    /\ capital_pln' = RAdd(capital_pln,
                           IF HasKey(contributions, Today)
                           THEN Lookup(contributions, Today) ELSE R(0))
    /\ bull_days' = IF DayRegime = Some("bull") THEN bull_days + 1 ELSE bull_days
    /\ bear_days' = IF DayRegime = Some("bear") THEN bear_days + 1 ELSE bear_days
    /\ current_scores' = DayScores
    /\ rebalance_due' = DayDue

\* generate_orders returns: the day goes on to the fill loop
StartDay ==
    /\ BeginDay
    /\ IsNone(DayOrders.exc)
    /\ emitted' = DayOrders.orders
    /\ orders' = DayOrders.orders
    /\ transactions' = transactions + Len(DayOrders.orders)
    /\ pc' = "fill"
    /\ UNCHANGED <<Inputs, day, holdings, currency_map, equity_curve, prev_value,
                   daily_returns, ret>>

\* generate_orders raises: the exception leaves run
StartDayRaises ==
    /\ BeginDay
    /\ ~IsNone(DayOrders.exc)
    /\ ret' = DayOrders.exc
    /\ pc' = "raised"
    /\ UNCHANGED <<Inputs, day, orders, emitted, transactions, holdings, currency_map,
                   equity_curve, prev_value, daily_returns>>

\* lines 111-132: one iteration of the fill loop
Fill ==
    /\ pc = "fill"
    /\ orders # <<>>
    /\ LET r == FillOrder(Head(orders), holdings, capital_pln, currency_map,
                          price_history, Today)
       IN  /\ holdings' = r.holdings
           /\ capital_pln' = r.capital_pln
           /\ currency_map' = r.currency_map
    /\ orders' = Tail(orders)
    /\ UNCHANGED <<Inputs, pc, day, regime, rebalance_due, emitted, current_scores,
                   equity_curve, prev_value, daily_returns, bull_days, bear_days,
                   transactions, ret>>

\* a variant of RecordEquity that drops a day whose value repeats the previous one
RecordEquityOnChange(curve, date, value) ==
    IF curve # <<>> /\ curve[Len(curve)][2] = value THEN curve
    ELSE Append(curve, <<date, value>>)

\* line 140: equity_curve.append((date, portfolio_pln))
RecordEquity(curve, date, value) == Append(curve, <<date, value>>)

\* lines 134-143: valuation of the day
CloseDay ==
    /\ pc = "fill"
    /\ orders = <<>>
    /\ LET portfolio_value == MarkToMarket(holdings, capital_pln, price_history, Today)
           portfolio_pln ==
               portfolio_to_pln(base_currency,
                                << [key |-> "portfolio", val |-> portfolio_value] >>,
                                fx_history, Today,
                                << [key |-> "portfolio", val |-> "PLN"] >>)
       IN  /\ equity_curve' = RecordEquity(equity_curve, Today, portfolio_pln)
           /\ daily_returns' =
                 IF RGt(prev_value, R(0))
                 THEN Append(daily_returns, RDiv(RSub(portfolio_pln, prev_value), prev_value))
                 ELSE daily_returns
           /\ prev_value' = portfolio_pln
    /\ day' = day + 1
    /\ pc' = "loop"
    /\ UNCHANGED <<Inputs, regime, rebalance_due, orders, emitted, holdings, currency_map,
                   capital_pln, current_scores, bull_days, bear_days, transactions, ret>>

\* _cagr divides by the first value of the curve
CagrRaises == equity_curve # <<>> /\ RZero(equity_curve[1][2])

\* lines 145-160: the report
Finish ==
    /\ pc = "loop"
    /\ day > Len(spy_prices)
    /\ ~CagrRaises
    /\ LET total_days == IF bull_days + bear_days # 0 THEN bull_days + bear_days ELSE 1
       IN  ret' = Some([transactions |-> transactions,
                        bull_exposure |-> RNorm(bull_days, total_days),
                        bear_exposure |-> RNorm(bear_days, total_days),
                        equity_curve |-> equity_curve])
    /\ pc' = "done"
    /\ UNCHANGED <<Inputs, day, regime, rebalance_due, orders, emitted, holdings,
                   currency_map, capital_pln, current_scores, equity_curve, prev_value,
                   daily_returns, bull_days, bear_days, transactions>>

FinishRaises ==
    /\ pc = "loop"
    /\ day > Len(spy_prices)
    /\ CagrRaises
    /\ ret' = Some("ZeroDivisionError")
    /\ pc' = "raised"
    /\ UNCHANGED <<Inputs, day, regime, rebalance_due, orders, emitted, holdings,
                   currency_map, capital_pln, current_scores, equity_curve, prev_value,
                   daily_returns, bull_days, bear_days, transactions>>

Next == StartDay \/ StartDayRaises \/ Fill \/ CloseDay \/ Finish \/ FinishRaises

Spec == Init /\ [][Next]_vars

(***************************************************************************)
(* Functions applied on their own, to inputs drawn from bounded sets.      *)
(* The state of the run that a function does not touch is left idle.       *)
(***************************************************************************)
IdleRun ==
    /\ spy_prices = <<>>
    /\ price_history = <<>>
    /\ top100_by_year = <<>>
    /\ contributions = <<>>
    /\ fundamentals = <<>>
    /\ base_currency = "PLN"
    /\ fx_history = <<>>
    /\ regime_map = <<>>
    /\ rebalance_dates = <<>>
    /\ equity_curve = <<>>
    /\ holdings = <<>>
    /\ currency_map = <<>>
    /\ daily_returns = <<>>
    /\ bull_days = 0
    /\ bear_days = 0
    /\ transactions = 0
    /\ current_scores = <<>>
    /\ capital_pln = R(initial_capital)
    /\ prev_value = R(initial_capital)
    /\ day = 1
    /\ regime = None
    /\ rebalance_due = FALSE
    /\ orders = <<>>
    /\ emitted = <<>>

Symbols == <<"AAA", "BBB", "SHV">>

\* the sequences of at most n elements of the sequence pool, in pool order
SubLists(pool, n) ==
    UNION {{[i \in 1..k |-> pool[idx[i]]] : idx \in IncreasingFrom(1, Len(pool), k)} :
               k \in 0..Min(n, Len(pool))}

CallDate == <<2020, 4, 1>>

\* a position as the fill step creates it: weight max_position, cost_basis the fill price
HeldPosition(symbol, entry_date) ==
    Position(symbol, R(2), "USD", max_position, R(3), entry_date)

DrawnPortfolios ==
    {[i \in 1..Len(ks) |-> [key |-> ks[i], val |-> HeldPosition(ks[i], <<2020, 1, 2>>)]] :
        ks \in SubLists(Symbols, MaxHeld)}

PickVariants(symbol) ==
    {Score(symbol, 30, 60, 2020), Score(symbol, 50, 60, 2020), Score(symbol, 50, 70, 2020)}

\* at most one pick per symbol, in either order
DrawnPicks ==
    LET one == PickVariants("AAA") \cup PickVariants("BBB")
    IN  UNION {{ps \in [1..k -> one] :
                    \A i, j \in 1..k : i # j => ps[i].symbol # ps[j].symbol} :
                   k \in 0..Min(MaxPicks, 2)}

DrawnPriceMaps ==
    {<<>>} \cup
    {<< [key |-> "AAA", val |-> a], [key |-> "BBB", val |-> b] >> \o shv :
        a \in {1, 3}, b \in {1, 3},
        shv \in {<<>>, << [key |-> "SHV", val |-> 0] >>, << [key |-> "SHV", val |-> 3] >>}}

DrawnSmaMaps ==
    { <<>>,
      << [key |-> "AAA", val |-> << [key |-> CallDate, val |-> R(2)] >>],
         [key |-> "BBB", val |-> << [key |-> CallDate, val |-> R(2)] >>] >> }

InitOrders ==
    /\ IdleRun
    /\ cfg \in Configs
    /\ \E picks \in DrawnPicks, top100 \in SubLists(Symbols, 3),
          spy_regime \in {"bull", "bear"}, price_map \in DrawnPriceMaps,
          sma_map \in DrawnSmaMaps, portfolio \in DrawnPortfolios,
          bear \in {None, Some(<<"ZPR1.DE", "EUR">>)}, due \in BOOLEAN :
            call = [date |-> CallDate, picks |-> picks, top100 |-> top100,
                    spy_regime |-> spy_regime, price_map |-> price_map,
                    sma_map |-> sma_map, portfolio |-> portfolio,
                    bear_asset |-> bear, rebalance_due |-> due]
    /\ pc = "call generate_orders"
    /\ ret = None

CallGenerateOrders ==
    /\ pc = "call generate_orders"
    /\ ret' = Some(generate_orders(cfg, call.date, call.picks, call.top100,
                                   call.spy_regime, call.price_map, call.sma_map,
                                   call.portfolio, call.bear_asset, call.rebalance_due))
    /\ pc' = "returned"
    /\ UNCHANGED <<cfg, spy_prices, price_history, top100_by_year, contributions,
                   base_currency, fundamentals, fx_history, current_scores, regime_map,
                   rebalance_dates, day, regime, rebalance_due, orders, emitted, holdings,
                   currency_map, capital_pln, equity_curve, prev_value, daily_returns,
                   bull_days, bear_days, transactions, call>>

SpecOrders == InitOrders /\ [][CallGenerateOrders]_vars

(***************************************************************************)
(* The fill loop on drawn holdings and orders                              *)
(***************************************************************************)
MaxOrders == 2        \* most orders of a drawn order list

FillDate == <<2020, 4, 1>>

\* entered 1, 10, 89, 90 and 91 days before FillDate
EntryDates == { <<2020, 3, 31>>, <<2020, 3, 22>>, <<2020, 1, 3>>,
                <<2020, 1, 2>>, <<2020, 1, 1>> }

FillHoldings ==
    {a \o b :
        a \in {<<>>} \cup {<< [key |-> "AAA", val |-> HeldPosition("AAA", e)] >> :
                               e \in EntryDates},
        b \in {<<>>, << [key |-> "BBB", val |-> HeldPosition("BBB", <<2020, 3, 22>>)] >>}}

SellReasons == fundamental_reasons \cup {"Price below SMA200"}

DrawnOrder ==
    {Order(sym, "SELL", R(2), "USD", reason, None) :
        sym \in {"AAA", "BBB"}, reason \in SellReasons}
    \cup
    {Order(sym, "BUY", R(0), "USD", "Enter TOP15", price) :
        sym \in {"AAA", "BBB"}, price \in {None, Some(0), Some(3), Some(4)}}

\* AAA has a bar on FillDate, BBB has no history (its price resolves to 0)
FillPrices ==
    { << [key |-> "AAA", val |-> Bars(<< <<2020, 1, 2>>, FillDate >>, <<3, 4>>)] >>,
      << [key |-> "AAA", val |-> Bars(<< <<2020, 1, 2>>, FillDate >>, <<3, 4>>)],
         [key |-> "BBB", val |-> Bars(<< <<2020, 1, 2>> >>, <<5>>)] >> }

InitFill ==
    /\ cfg \in {PortfolioConfig(1, 2)}
    /\ spy_prices = << PriceBar(FillDate, 1) >>
    /\ price_history \in FillPrices
    /\ top100_by_year = <<>>
    /\ contributions = <<>>
    /\ fundamentals = <<>>
    /\ base_currency = "PLN"
    /\ fx_history = <<>>
    /\ regime_map = <<>>
    /\ rebalance_dates = << FillDate >>
    /\ equity_curve = <<>>
    /\ holdings \in FillHoldings
    /\ currency_map = [i \in 1..Len(holdings) |-> [key |-> holdings[i].key, val |-> "USD"]]
    /\ daily_returns = <<>>
    /\ bull_days = 0
    /\ bear_days = 0
    /\ current_scores = <<>>
    /\ capital_pln \in {R(0), R(initial_capital)}
    /\ prev_value = R(initial_capital)
    /\ day = 1
    /\ regime = None
    /\ rebalance_due = TRUE
    /\ \E n \in 1..MaxOrders : orders \in [1..n -> DrawnOrder]
    /\ emitted = orders
    /\ transactions = Len(orders)
    /\ pc = "fill"
    /\ NoCall
    /\ ret = None

SpecFill == InitFill /\ [][Fill]_vars

(***************************************************************************)
(* _quarter_starts on drawn date lists                                     *)
(***************************************************************************)
SchedPool == << <<2020, 1, 2>>, <<2020, 3, 30>>, <<2020, 3, 31>>, <<2020, 4, 1>>,
                <<2020, 6, 29>>, <<2020, 6, 30>>, <<2020, 12, 15>>, <<2021, 1, 4>> >>

\* the date list of the scheduler scenario of the documentation
ScenarioDates == << <<2020, 1, 2>>, <<2020, 3, 30>>, <<2020, 3, 31>>, <<2020, 4, 1>>,
                    <<2020, 6, 30>> >>

\* the date list of test_rebalance_schedule_picks_quarter_end_dates
TestDates == << <<2020, 1, 2>>, <<2020, 3, 30>>, <<2020, 3, 31>>, <<2020, 4, 1>>,
                <<2020, 6, 29>>, <<2020, 6, 30>>, <<2020, 12, 15>> >>

\* any order, repetitions included
DrawnDateLists ==
    {ScenarioDates, TestDates} \cup
    UNION {[1..n -> Range(SchedPool)] : n \in 0..MaxSchedLen}

InitSched ==
    /\ IdleRun
    /\ cfg \in {PortfolioConfig(1, 2)}
    /\ \E dates \in DrawnDateLists : call = [dates |-> dates]
    /\ pc = "call _quarter_starts"
    /\ ret = None

CallQuarterStarts ==
    /\ pc = "call _quarter_starts"
    /\ ret' = Some(_quarter_starts(call.dates))
    /\ pc' = "returned"
    /\ UNCHANGED <<cfg, spy_prices, price_history, top100_by_year, contributions,
                   base_currency, fundamentals, fx_history, current_scores, regime_map,
                   rebalance_dates, day, regime, rebalance_due, orders, emitted, holdings,
                   currency_map, capital_pln, equity_curve, prev_value, daily_returns,
                   bull_days, bear_days, transactions, call>>

SpecSched == InitSched /\ [][CallQuarterStarts]_vars

(***************************************************************************)
(* Properties                                                              *)
(***************************************************************************)
Result == ret[1]
OrdersFor(os, symbol) == SelectSeq(os, LAMBDA o : o.symbol = symbol)
HeldSymbols(portfolio) == {portfolio[i].val.symbol : i \in 1..Len(portfolio)}

\* C1: generate_orders called with rebalance_due = false returns normally and
\* returns the empty order list, whatever the regime, the picks, the eligible
\* universe, the prices, the SMAs and the holdings.
C1_NoOrdersUnlessRebalanceDue ==
    (pc = "returned" /\ ~call.rebalance_due) =>
        (IsNone(Result.exc) /\ Result.orders = <<>>)

\* C1 witness: a call without rebalance_due has returned, in the bear regime with a
\* held position that a due call would sell.
C1_Witness ==
    /\ pc = "returned"
    /\ ~call.rebalance_due
    /\ call.spy_regime = "bear"
    /\ "AAA" \in HeldSymbols(call.portfolio)
    /\ call.picks # <<>>

\* C1 over a run: a day whose order list is not empty is a day of the schedule.
C1_RunOrdersOnlyOnSchedule ==
    (pc = "fill" /\ emitted # <<>>) => Today \in Range(rebalance_dates)

\* the order whose fill was the last step of the fill loop
Filled == emitted[Len(emitted) - Len(orders)]
HasFilled == pc = "fill" /\ Len(orders) < Len(emitted)

\* the price the fill step resolves for the order at the head of the list
HeadPrice ==
    LET o == Head(orders)
    IN  IF o.price # None /\ o.price[1] # 0 THEN o.price[1]
        ELSE _get_price(price_history, o.symbol, Today)

\* C2: in the fill step a SELL of a held position whose reason is "Bear regime",
\* "Lost TOP100", "ValueScore guardrail" or "Below TOP3N buffer" is filled whatever
\* the entry_date; a SELL with any other reason is filled if the position has been
\* held at least 90 days and otherwise leaves holdings and cash unchanged. (A fill
\* needs a non-zero price in both cases.)
C2_HoldingPeriodGuard ==
    [][ (pc = "fill" /\ orders # <<>> /\ Head(orders).action = "SELL"
           /\ HasKey(holdings, Head(orders).symbol))
        => LET o == Head(orders)
               pos == Lookup(holdings, o.symbol)
               exempt == o.reason \in {"Bear regime", "Lost TOP100",
                                       "ValueScore guardrail", "Below TOP3N buffer"}
               heldDays == Ordinal(Today) - Ordinal(pos.entry_date)
           IN  IF HeadPrice # 0 /\ (exempt \/ heldDays >= 90)
               THEN /\ ~HasKey(holdings', o.symbol)
                    /\ capital_pln' = RAdd(capital_pln, RMul(pos.quantity, R(HeadPrice)))
               ELSE /\ holdings' = holdings
                    /\ capital_pln' = capital_pln ]_vars

\* C2 witness: a "Price below SMA200" SELL of a position entered 10 days ago has been
\* processed and the position is still held.
C2_Witness ==
    /\ HasFilled
    /\ Filled.action = "SELL"
    /\ Filled.reason = "Price below SMA200"
    /\ Filled.symbol = "AAA"
    /\ HasKey(holdings, "AAA")
    /\ DaysBetween(Today, Lookup(holdings, "AAA").entry_date) = 10

\* the rank of the i-th pick among the picks of the eligible universe, by total
\* descending, earlier picks first among equal totals (1 is the best)
RankOf(picks, top100, i) ==
    1 + Cardinality({j \in 1..Len(picks) :
            /\ picks[j].symbol \in Range(top100)
            /\ \/ picks[j].total > picks[i].total
               \/ picks[j].total = picks[i].total /\ j < i})

PickIndex(picks, symbol) == {i \in 1..Len(picks) : picks[i].symbol = symbol}

\* the reason of the highest-priority exit check that matches a held position,
\* for a hold band of width band; "" when no check matches
ExitReason(pos, band) ==
    LET idx == PickIndex(call.picks, pos.symbol)
        sma_value == SmaAt(call.sma_map, pos.symbol, call.date)
        price == IF HasKey(call.price_map, pos.symbol)
                 THEN Lookup(call.price_map, pos.symbol) ELSE 0
    IN  IF pos.symbol \notin Range(call.top100) THEN "Lost TOP100"
        ELSE IF \E i \in idx : call.picks[i].value < cfg.min_value_score
             THEN "ValueScore guardrail"
        ELSE IF ~\E i \in idx : RankOf(call.picks, call.top100, i) <= band
             THEN "Below TOP3N buffer"
        ELSE IF sma_value # None /\ RLt(R(price), sma_value[1])
             THEN "Price below SMA200"
        ELSE ""

\* C3: in the bull regime on a rebalance date every held position receives at most
\* one SELL, and a position for which an exit check matches receives the SELL whose
\* reason is that of the highest-priority matching check (for some width of the
\* hold band that is a multiple of top_n).
C3_ExitPriority ==
    (pc = "returned" /\ call.spy_regime = "bull" /\ call.rebalance_due) =>
        \E m \in 1..3 :
            \A i \in 1..Len(call.portfolio) :
                LET pos == call.portfolio[i].val
                    sells == SelectSeq(OrdersFor(Result.orders, pos.symbol),
                                       LAMBDA o : o.action = "SELL")
                    reason == ExitReason(pos, m * cfg.top_n)
                IN  IF reason = "" THEN sells = <<>>
                    ELSE Len(sells) = 1 /\ sells[1].reason = reason

\* the designated bear asset of a call
CallBear == IF call.bear_asset = None THEN <<"SHV", "USD">> ELSE call.bear_asset[1]

\* C4: in the bear regime on a rebalance date the returned orders are exactly one
\* "Bear regime" SELL per held position other than the bear asset, plus one
\* "Bear regime T-Bill" BUY of the bear asset iff it is not held and its price is
\* known (present and not 0); there is no other order.
C4_BearOrdersExact ==
    (pc = "returned" /\ call.spy_regime = "bear" /\ call.rebalance_due) =>
        LET os == Result.orders
            held == HeldSymbols(call.portfolio)
            wantBuy == /\ CallBear[1] \notin held
                       /\ HasKey(call.price_map, CallBear[1])
                       /\ Lookup(call.price_map, CallBear[1]) # 0
        IN  /\ IsNone(Result.exc)
            /\ Len(os) = Cardinality(held \ {CallBear[1]}) + (IF wantBuy THEN 1 ELSE 0)
            /\ \A sym \in held \ {CallBear[1]} :
                   \E i \in 1..Len(os) :
                       /\ os[i].symbol = sym
                       /\ os[i].action = "SELL"
                       /\ os[i].reason = "Bear regime"
                       /\ os[i].quantity = Lookup(call.portfolio, sym).quantity
            /\ wantBuy =>
                   \E i \in 1..Len(os) :
                       /\ os[i].symbol = CallBear[1]
                       /\ os[i].action = "BUY"
                       /\ os[i].reason = "Bear regime T-Bill"
            /\ \A i \in 1..Len(os) : os[i].reason # "Enter TOP15"

\* C4 witness: a bear call on a rebalance date has returned with picks present, a
\* position to sell and the bear asset to buy.
C4_Witness ==
    /\ pc = "returned"
    /\ call.spy_regime = "bear"
    /\ call.rebalance_due
    /\ call.picks # <<>>
    /\ "AAA" \in HeldSymbols(call.portfolio)
    /\ "SHV" \notin HeldSymbols(call.portfolio)
    /\ call.bear_asset = None
    /\ Get(call.price_map, "SHV") = Some(3)
    /\ Len(Result.orders) = Cardinality(HeldSymbols(call.portfolio)) + 1

\* the symbols that qualify for an "Enter TOP15" BUY
Qualifies(symbol) ==
    \E i \in PickIndex(call.picks, symbol) :
        /\ symbol \in Range(call.top100)
        /\ RankOf(call.picks, call.top100, i) <= cfg.top_n
        /\ symbol \notin HeldSymbols(call.portfolio)
        /\ HasKey(call.price_map, symbol)
        /\ SmaAt(call.sma_map, symbol, call.date) # None
        /\ RGt(R(Lookup(call.price_map, symbol)), SmaAt(call.sma_map, symbol, call.date)[1])
        /\ call.picks[i].value >= cfg.min_value_score

\* C5: in the bull regime on a rebalance date an "Enter TOP15" BUY is emitted for a
\* symbol if and only if the symbol is among the top top_n eligible picks, is not
\* held, has a price above its SMA and a value sub-score of at least min_value_score.
C5_EntryOrders ==
    (pc = "returned" /\ call.spy_regime = "bull" /\ call.rebalance_due) =>
        \A sym \in Range(Symbols) :
            Qualifies(sym) <=>
                \E i \in 1..Len(Result.orders) :
                    /\ Result.orders[i].symbol = sym
                    /\ Result.orders[i].action = "BUY"
                    /\ Result.orders[i].reason = "Enter TOP15"

RECURSIVE CloseSum(_, _)
CloseSum(lo, hi) == IF hi < lo THEN 0 ELSE spy_prices[hi].close + CloseSum(lo, hi - 1)

\* the SMA of benchmark day i is defined once lookback closes are available
SmaDefined(i) == i >= cfg.sma_lookback

\* close >= mean of the last lookback closes, without division
CloseAtLeastSma(i) ==
    spy_prices[i].close * cfg.sma_lookback >= CloseSum(i - cfg.sma_lookback + 1, i)

\* the days of the calendar the loop has tallied so far
Tallied ==
    IF pc \in {"loop", "done"} THEN day - 1 ELSE Min(day, Len(spy_prices))

BullDaysSoFar == {i \in 1..Tallied : SmaDefined(i) /\ CloseAtLeastSma(i)}
BearDaysSoFar == {i \in 1..Tallied : SmaDefined(i) /\ ~CloseAtLeastSma(i)}

\* C6: a benchmark day whose SMA is defined is "bull" iff close >= SMA (equality is
\* bull) and "bear" otherwise; a day before the window has filled has no regime and
\* is counted in neither tally; the exposures of the report come from these tallies.
C6_RegimeClassification ==
    /\ \A i \in 1..Len(spy_prices) :
           Get(regime_map, spy_prices[i].date) =
               (IF ~SmaDefined(i) THEN None
                ELSE IF CloseAtLeastSma(i) THEN Some("bull") ELSE Some("bear"))
    /\ pc \in {"loop", "fill", "raised", "done"} =>
           /\ bull_days = Cardinality(BullDaysSoFar)
           /\ bear_days = Cardinality(BearDaysSoFar)
    /\ pc = "done" =>
           LET total == IF bull_days + bear_days = 0 THEN 1 ELSE bull_days + bear_days
           IN  /\ Result.bull_exposure = RNorm(Cardinality(BullDaysSoFar), total)
               /\ Result.bear_exposure = RNorm(Cardinality(BearDaysSoFar), total)

\* C6 witness: a finished run in which a day before the window filled was left out of
\* the tallies and a day whose close equals its SMA was tallied as bull.
C6_Witness ==
    /\ pc = "done"
    /\ cfg.sma_lookback = 2
    /\ Len(spy_prices) >= 2
    /\ \E i \in 2..Len(spy_prices) :
           /\ spy_prices[i].close = spy_prices[i - 1].close
           /\ Get(regime_map, spy_prices[i].date) = Some("bull")
    /\ bull_days >= 1
    /\ bull_days + bear_days = Len(spy_prices) - 1

\* calendar quarter 1..4 of a date, with its year
YearQuarter(date) ==
    <<Year(date), IF Month(date) <= 3 THEN 1 ELSE IF Month(date) <= 6 THEN 2
                  ELSE IF Month(date) <= 9 THEN 3 ELSE 4>>

\* date is the earliest of the dates of its (year, quarter)
EarliestOfQuarter(date, dates) ==
    \A i \in 1..Len(dates) :
        YearQuarter(dates[i]) = YearQuarter(date) => DateLe(date, dates[i])

C7_AnyDateList ==
    pc = "returned" =>
        /\ \A i \in 1..Len(call.dates) :
               Cardinality({j \in 1..Len(Result) :
                               YearQuarter(Result[j]) = YearQuarter(call.dates[i])}) = 1
        /\ \A j \in 1..Len(Result) :
               /\ Result[j] \in Range(call.dates)
               /\ EarliestOfQuarter(Result[j], call.dates)

LatestOfQuarter(date, dates) ==
    \A i \in 1..Len(dates) :
        YearQuarter(dates[i]) = YearQuarter(date) => DateLe(dates[i], date)

\* C9: the quarterly schedule over a list of trading dates consists of the last
\* listed trading date of each (year, quarter) of the list; for the dates of the test
\* it is 2020-03-31, 2020-06-30, 2020-12-15.
C9_QuarterEndSchedule ==
    pc = "returned" =>
        /\ \A j \in 1..Len(Result) : LatestOfQuarter(Result[j], call.dates)
        /\ call.dates = TestDates =>
               Result = << <<2020, 3, 31>>, <<2020, 6, 30>>, <<2020, 12, 15>> >>

EquityDates(curve) == [i \in 1..Len(curve) |-> curve[i][1]]

\* C10: the dates of the equity curve are the benchmark dates of the days simulated
\* so far, in order, and after run they are all the benchmark dates: one entry per
\* day, no gap, no duplicate, whatever orders the days had.
C10_EquityCurveDates ==
    /\ EquityDates(equity_curve) = SubSeq(spy_dates, 1, day - 1)
    /\ pc = "done" => EquityDates(Result.equity_curve) = spy_dates

\* C10 witness: a run of several days has finished, with orders on one day and none
\* on another.
C10_Witness ==
    /\ pc = "done"
    /\ Len(spy_prices) >= 2
    /\ transactions >= 1
    /\ Len(equity_curve) = Len(spy_prices)
    /\ equity_curve[1][2] = equity_curve[2][2]

\* C11: every position held during the backtest loop has a quantity above 0; a BUY
\* filled when the available cash is 0 leaves no zero-quantity position behind.
C11_HeldQuantityPositive ==
    \A i \in 1..Len(holdings) : RGt(holdings[i].val.quantity, R(0))

(***************************************************************************)
(* portfolio_manager.py                                                    *)
(***************************************************************************)
MaxAllocs == 3        \* most picks of a drawn pick list given to build_weights

TargetAllocation(symbol, weight, score) ==
    [symbol |-> symbol, weight |-> weight, score |-> score]

\* RebalancingConfig(min_position=.., max_position=.., max_sector_weight=..)
RebalancingConfig(min_pos, max_pos, sector_cap) ==
    [frequency |-> "quarterly", min_position |-> min_pos, max_position |-> max_pos,
     max_sector_weight |-> sector_cap, sma_lookback |-> rebalance_cfg.sma_lookback]

RECURSIVE RSum(_)
RSum(s) == IF s = <<>> THEN R(0) ELSE RAdd(Head(s), RSum(Tail(s)))

RMax(a, b) == IF RGt(b, a) THEN b ELSE a
RMin(a, b) == IF RLt(b, a) THEN b ELSE a

Weights(allocations) == [i \in 1..Len(allocations) |-> allocations[i].weight]

\* a variant of RawAllocations that gives every pick the same weight
RawAllocationsEqual(picks) ==
    [i \in 1..Len(picks) |->
        TargetAllocation(picks[i].symbol, RDiv(R(1), R(Len(picks))), picks[i])]

\* lines 28-29: quality_sum = sum(p.quality for p in picks) or 1.0, and raw
RawAllocations(picks) ==
    LET s == SumSeq([i \in 1..Len(picks) |-> picks[i].quality])
        quality_sum == IF s = 0 THEN 1 ELSE s
    IN  [i \in 1..Len(picks) |->
            TargetAllocation(picks[i].symbol,
                             RDiv(R(picks[i].quality), R(quality_sum)), picks[i])]

\* lines 35-38: sector_weight[sector], the summed weight of the sector
SectorWeight(allocations, sector) ==
    RSum(Weights(SelectSeq(allocations, LAMBDA a : a.score.sector = sector)))

\* a variant of ApplySectorCap that scales a sector over the cap by one half
ApplySectorCapHalved(rc, allocations) ==
    [i \in 1..Len(allocations) |->
        LET a == allocations[i]
            sw == SectorWeight(allocations, a.score.sector)
        IN  IF RGt(sw, rc.max_sector_weight)
            THEN [a EXCEPT !.weight = RMul(@, [n |-> 1, d |-> 2])]
            ELSE a]

\* lines 40-43: sector_weight is not updated while the allocations are scaled
ApplySectorCap(rc, allocations) ==
    [i \in 1..Len(allocations) |->
        LET a == allocations[i]
            sw == SectorWeight(allocations, a.score.sector)
        IN  IF RGt(sw, rc.max_sector_weight)
            THEN [a EXCEPT !.weight = RMul(@, RDiv(rc.max_sector_weight, sw))]
            ELSE a]

\* lines 45-46: max(cfg.min_position, min(cfg.max_position, alloc.weight))
ClampPositions(rc, allocations) ==
    [i \in 1..Len(allocations) |->
        [allocations[i] EXCEPT !.weight = RMax(rc.min_position, RMin(rc.max_position, @))]]

\* a variant of Renormalize that returns the clamped weights as they are
RenormalizeSkipped(allocations) == allocations

\* lines 47-50: total = sum(a.weight for a in allocations) or 1.0
Renormalize(allocations) ==
    LET s == RSum(Weights(allocations))
        total == IF RZero(s) THEN R(1) ELSE s
    IN  [i \in 1..Len(allocations) |->
            [allocations[i] EXCEPT !.weight = RDiv(@, total)]]

_apply_constraints(rc, allocations) ==
    Renormalize(ClampPositions(rc, ApplySectorCap(rc, allocations)))

build_weights(rc, picks) == _apply_constraints(rc, RawAllocations(picks))

(***************************************************************************)
(* build_weights on drawn picks and configurations, one step of            *)
(* _apply_constraints at a time                                            *)
(***************************************************************************)
WeightSymbols == <<"AAA", "BBB", "CCC", "DDD">>

\* quality_score is 0.9 * ROE + 0.1 * trend: below 0 for a loss-making company
DrawnQualities == {-1, 0, 1, 2}

DrawnSectors == {"Tech", "Health"}

WeightPicks ==
    UNION {{[i \in 1..n |-> ScoredCompany(WeightSymbols[i], q[i], 50, 50, 50, 0, s[i], 10, 2020)] :
                q \in [1..n -> DrawnQualities], s \in [1..n -> DrawnSectors]} :
               n \in 0..Min(MaxAllocs, Len(WeightSymbols))}

\* the defaults; no bound at all; the defaults with no minimum; only a sector cap
DrawnRebalancingConfigs ==
    { rebalance_cfg,
      RebalancingConfig(R(0), R(1), R(1)),
      RebalancingConfig(R(0), max_position, rebalance_cfg.max_sector_weight),
      RebalancingConfig(R(0), R(1), [n |-> 1, d |-> 2]) }

InitWeights ==
    /\ IdleRun
    /\ cfg \in {PortfolioConfig(1, 2)}
    /\ \E picks \in WeightPicks, rc \in DrawnRebalancingConfigs :
          call = [picks |-> picks, rebalance_cfg |-> rc]
    /\ pc = "call build_weights"
    /\ ret = None

WeightsFrame ==
    <<cfg, spy_prices, price_history, top100_by_year, contributions,
      base_currency, fundamentals, fx_history, current_scores, regime_map,
      rebalance_dates, day, regime, rebalance_due, orders, emitted, holdings,
      currency_map, capital_pln, equity_curve, prev_value, daily_returns,
      bull_days, bear_days, transactions, call>>

\* lines 28-30: raw is built and handed to _apply_constraints
BuildRaw ==
    /\ pc = "call build_weights"
    /\ ret' = Some(RawAllocations(call.picks))
    /\ pc' = "sector cap"
    /\ UNCHANGED WeightsFrame

\* lines 35-43
SectorCapStep ==
    /\ pc = "sector cap"
    /\ ret' = Some(ApplySectorCap(call.rebalance_cfg, ret[1]))
    /\ pc' = "clamp"
    /\ UNCHANGED WeightsFrame

\* lines 45-46
ClampStep ==
    /\ pc = "clamp"
    /\ ret' = Some(ClampPositions(call.rebalance_cfg, ret[1]))
    /\ pc' = "renormalize"
    /\ UNCHANGED WeightsFrame

\* lines 47-51
RenormalizeStep ==
    /\ pc = "renormalize"
    /\ ret' = Some(Renormalize(ret[1]))
    /\ pc' = "weights returned"
    /\ UNCHANGED WeightsFrame

NextWeights == BuildRaw \/ SectorCapStep \/ ClampStep \/ RenormalizeStep

SpecWeights == InitWeights /\ [][NextWeights]_vars

\* C12: for every non-empty list of picks and every configuration of min_position,
\* max_position and max_sector_weight, the weights build_weights returns sum to 1,
\* also when every pick has quality 0.
C12_WeightsSumToOne ==
    (pc = "weights returned" /\ call.picks # <<>>)
        => RSum(Weights(Result)) = R(1)

\* C12 as amended: the weights build_weights returns sum to 1 unless every one of
\* them is 0; they sum to 1 whenever the list of picks is not empty and min_position
\* is above 0, also when every pick has quality 0.
C12_SumToOneUnlessAllZero ==
    pc = "weights returned"
        => LET s == RSum(Weights(Result))
           IN  /\ s = R(1) \/ \A i \in 1..Len(Result) : Result[i].weight = R(0)
               /\ (call.picks # <<>> /\ RGt(call.rebalance_cfg.min_position, R(0)))
                      => s = R(1)

\* C12 witness: picks of quality 0 only under the default bounds have come back with
\* equal weights.
C12_Witness ==
    /\ pc = "weights returned"
    /\ call.rebalance_cfg = rebalance_cfg
    /\ Len(call.picks) = 2
    /\ \A i \in 1..2 : call.picks[i].quality = 0
    /\ Weights(Result) = << [n |-> 1, d |-> 2], [n |-> 1, d |-> 2] >>

\* the configuration with no bound: min_position 0, max_position 1, sector cap 1
Unconstrained == RebalancingConfig(R(0), R(1), R(1))

QualitySum(picks) == SumSeq([i \in 1..Len(picks) |-> picks[i].quality])

QualityShare(picks, i) == RNorm(picks[i].quality, QualitySum(picks))

\* C13: with min_position 0, max_position 1 and sector cap 1, and a quality sum above
\* 0, build_weights gives each pick the weight quality / sum of qualities, in the
\* order of the picks; qualities 2, 1, 1 give 0.5, 0.25, 0.25.
C13_WeightIsQualityShare ==
    (pc = "weights returned" /\ call.rebalance_cfg = Unconstrained
        /\ QualitySum(call.picks) > 0)
        => \A i \in 1..Len(call.picks) :
              /\ Result[i].symbol = call.picks[i].symbol
              /\ Result[i].weight = QualityShare(call.picks, i)

\* C13 as amended: the same, for picks none of which has a quality below 0.
C13_WeightIsShareOfNonNegative ==
    (pc = "weights returned" /\ call.rebalance_cfg = Unconstrained
        /\ QualitySum(call.picks) > 0
        /\ \A i \in 1..Len(call.picks) : call.picks[i].quality >= 0)
        => /\ Len(Result) = Len(call.picks)
           /\ \A i \in 1..Len(call.picks) :
                 /\ Result[i].symbol = call.picks[i].symbol
                 /\ Result[i].score = call.picks[i]
                 /\ Result[i].weight = QualityShare(call.picks, i)

\* C13 witness: qualities 2, 1, 1 in three picks have come back as 1/2, 1/4, 1/4.
C13_Witness ==
    /\ pc = "weights returned"
    /\ call.rebalance_cfg = Unconstrained
    /\ [i \in 1..Len(call.picks) |-> call.picks[i].quality] = <<2, 1, 1>>
    /\ Weights(Result) = << [n |-> 1, d |-> 2], [n |-> 1, d |-> 4], [n |-> 1, d |-> 4] >>

\* the allocations as build_weights hands them to _apply_constraints
RawOfCall == RawAllocations(call.picks)

SectorsOf(allocations) == {allocations[i].score.sector : i \in 1..Len(allocations)}

MaxSnapshots == 1     \* most snapshots of a drawn list given to score

\* models.py: metrics maps a name to a value, which may be None
FundamentalSnapshot(period, market_cap, sector, metrics) ==
    [period |-> period, market_cap |-> market_cap, sector |-> sector, metrics |-> metrics]

\* the fields of the dataclass ScoredCompany
ScoredCompanyFields ==
    {"symbol", "quality", "value", "growth", "risk", "total", "sector", "market_cap",
     "period"}

MEDIAN_PERCENTILE == [n |-> 1, d |-> 2]

\* lines 63-67: the first of keys whose value is not None, else default
RECURSIVE _metric_with_median(_, _, _)
_metric_with_median(metrics, keys, default) ==
    IF keys = <<>> THEN default
    ELSE LET value == IF HasKey(metrics, Head(keys)) THEN Lookup(metrics, Head(keys))
                      ELSE None
         IN  IF ~IsNone(value) THEN R(value[1])
             ELSE _metric_with_median(metrics, Tail(keys), default)

\* lines 99-112
moat_score(snapshot) ==
    LET gross_margin_pct ==
            _metric_with_median(snapshot.metrics,
                <<"gross_margin_percentile", "gross_margin_pct">>, MEDIAN_PERCENTILE)
        rd_sales_pct ==
            _metric_with_median(snapshot.metrics,
                <<"r_and_d_to_sales_percentile", "rd_sales_pct">>, MEDIAN_PERCENTILE)
        roic_trend_pct ==
            _metric_with_median(snapshot.metrics,
                <<"roic_trend_percentile", "roic_trend_pct">>, MEDIAN_PERCENTILE)
    IN  RAdd(RAdd(RMul([n |-> 2, d |-> 5], gross_margin_pct),
                  RMul([n |-> 3, d |-> 10], rd_sales_pct)),
             RMul([n |-> 3, d |-> 10], roic_trend_pct))

\* a scoring function of ScoringRules: moat_score, or a lambda returning a constant
ApplyRule(rule, snapshot) ==
    IF rule.kind = "moat_score" THEN moat_score(snapshot) ELSE R(rule.value)

ScoreReturned(v) == [exc |-> None, value |-> v]
ScoreRaised(e) == [exc |-> Some(e), value |-> <<>>]

\* lines 30-35: the sub-scores of one snapshot and their total
SubScores(rules, snap) ==
    LET quality == ApplyRule(rules.quality, snap)
        value == ApplyRule(rules.value, snap)
        growth == ApplyRule(rules.growth, snap)
        moat == ApplyRule(rules.moat, snap)
        risk == ApplyRule(rules.risk, snap)
    IN  [quality |-> quality, value |-> value, growth |-> growth, moat |-> moat,
         risk |-> risk,
         total |-> RAdd(RAdd(RAdd(RAdd(RMul([n |-> 7, d |-> 20], quality),
                                       RMul([n |-> 1, d |-> 5], growth)),
                                  RMul([n |-> 1, d |-> 5], moat)),
                             RMul([n |-> 3, d |-> 20], value)),
                        RMul([n |-> 1, d |-> 10], risk))]

\* lines 37-48: the keyword arguments of the call ScoredCompany(...)
ScoredCompanyKwargs(symbol, snap, s) ==
    [symbol |-> symbol, quality |-> s.quality, value |-> s.value, growth |-> s.growth,
     moat |-> s.moat, risk |-> s.risk, total |-> s.total, sector |-> snap.sector,
     market_cap |-> snap.market_cap, period |-> snap.period]

\* the generated __init__ of a dataclass: a keyword that is no field is a TypeError
NewScoredCompany(kwargs) ==
    IF DOMAIN kwargs \subseteq ScoredCompanyFields
    THEN ScoreReturned(kwargs) ELSE ScoreRaised("TypeError")

\* FundamentalScorer.score, lines 26-49
RECURSIVE score_from(_, _, _, _)
score_from(rules, symbol, snapshots, scored) ==
    IF snapshots = <<>> THEN ScoreReturned(scored)
    ELSE LET snap == Head(snapshots)
             made == NewScoredCompany(
                         ScoredCompanyKwargs(symbol, snap, SubScores(rules, snap)))
         IN  IF ~IsNone(made.exc) THEN made
             ELSE score_from(rules, symbol, Tail(snapshots),
                             Append(scored, made.value))

score(rules, symbol, snapshots) == score_from(rules, symbol, snapshots, <<>>)

(***************************************************************************)
(* score and moat_score on drawn snapshots                                 *)
(***************************************************************************)
\* what a snapshot may say of one moat component: nothing, the percentile (as None,
\* 0 or 60), the raw key only, or the percentile as None beside the raw key
ComponentMetrics(percentile, raw) ==
    { <<>>,
      << [key |-> percentile, val |-> None] >>,
      << [key |-> percentile, val |-> Some(0)] >>,
      << [key |-> percentile, val |-> Some(60)] >>,
      << [key |-> raw, val |-> Some(40)] >>,
      << [key |-> percentile, val |-> None], [key |-> raw, val |-> Some(40)] >> }

DrawnMetrics ==
    {gm \o rd \o roic :
        gm \in ComponentMetrics("gross_margin_percentile", "gross_margin_pct"),
        rd \in ComponentMetrics("r_and_d_to_sales_percentile", "rd_sales_pct"),
        roic \in ComponentMetrics("roic_trend_percentile", "roic_trend_pct")}

DrawnSnapshots == {FundamentalSnapshot(2020, 10, "Tech", mm) : mm \in DrawnMetrics}

ConstantRule(v) == [kind |-> "constant", value |-> v]

\* the rules of the scoring tests (constants) and the same with moat_score for the moat
DrawnRules ==
    { [quality |-> ConstantRule(80), value |-> ConstantRule(60),
       growth |-> ConstantRule(40), moat |-> ConstantRule(70), risk |-> ConstantRule(20)],
      [quality |-> ConstantRule(80), value |-> ConstantRule(60),
       growth |-> ConstantRule(40), moat |-> [kind |-> "moat_score", value |-> 0],
       risk |-> ConstantRule(20)] }

InitScore ==
    /\ IdleRun
    /\ cfg \in {PortfolioConfig(1, 2)}
    /\ \/ /\ pc = "call score"
          /\ \E rules \in DrawnRules, n \in 0..MaxSnapshots :
                \E snaps \in [1..n -> DrawnSnapshots] :
                   call = [rules |-> rules, symbol |-> "AAA", fundamentals |-> snaps]
       \/ /\ pc = "call moat_score"
          /\ \E snap \in DrawnSnapshots : call = [snapshot |-> snap]
    /\ ret = None

CallScore ==
    /\ pc = "call score"
    /\ ret' = Some(score(call.rules, call.symbol, call.fundamentals))
    /\ pc' = "score returned"
    /\ UNCHANGED WeightsFrame

CallMoatScore ==
    /\ pc = "call moat_score"
    /\ ret' = Some(moat_score(call.snapshot))
    /\ pc' = "moat_score returned"
    /\ UNCHANGED WeightsFrame

NextScore == CallScore \/ CallMoatScore

SpecScore == InitScore /\ [][NextScore]_vars

\* C15: for every symbol, list of snapshots and scoring functions, score returns
\* without raising one ScoredCompany per snapshot, with the sub-scores of the
\* snapshot and total = 0.35*quality + 0.20*growth + 0.20*moat + 0.15*value +
\* 0.10*risk.
C15_ScorePerSnapshot ==
    pc = "score returned"
        => /\ IsNone(Result.exc)
           /\ Len(Result.value) = Len(call.fundamentals)
           /\ \A i \in 1..Len(call.fundamentals) :
                 LET s == SubScores(call.rules, call.fundamentals[i])
                     c == Result.value[i]
                 IN  /\ c.quality = s.quality /\ c.value = s.value
                     /\ c.growth = s.growth /\ c.moat = s.moat /\ c.risk = s.risk
                     /\ c.total = s.total

\* C16: moat_score of a snapshot with no metric at all is exactly 50.0, each of the
\* three components falling back to the median percentile 50.0; a component present
\* with value 0 counts as 0.
C16_EmptyMetricsScoreFifty ==
    pc = "moat_score returned"
        => /\ call.snapshot.metrics = <<>> => Result = R(50)
           /\ (\A i \in 1..Len(call.snapshot.metrics) :
                  call.snapshot.metrics[i].val = Some(0)) /\ Len(call.snapshot.metrics) = 3
                 => Result = R(0)

\* the bear ticker configured for the base currency of the run (bear_asset(base)[0])
BearTickerOfBase == bear_asset(cfg, Some(base_currency))[1]

\* C17: the bear asset of a backtest is the entry of bear_etfs for the base currency
\* if it has one, else the USD entry, else the first entry; so when the base currency
\* has an entry, the orders of a bear-regime day exempt and buy that entry, not the
\* USD one.
C17_BearAssetOfBaseCurrency ==
    (pc = "fill" /\ regime # Some("bull") /\ HasKey(cfg.bear_etfs, base_currency))
        => \A i \in 1..Len(emitted) :
              /\ emitted[i].action = "BUY" => emitted[i].symbol = BearTickerOfBase
              /\ emitted[i].action = "SELL" => emitted[i].symbol # BearTickerOfBase

(***************************************************************************)
(* fx_to_pln and portfolio_to_pln on drawn FX histories                    *)
(***************************************************************************)
FxDates == { <<2020, 1, 2>>, <<2020, 1, 3>> }

FxCurrencies == {"PLN", "USD", "EUR", "GBP"}

\* none; the flat history of the runner, f"USD{base}" and f"EUR{base}", with bars on
\* the first date only; one pair with bars on both dates
DrawnFxHistories(base) ==
    { <<>>,
      << [key |-> <<"USD", base>>, val |-> Bars(<< <<2020, 1, 2>> >>, <<4>>)],
         [key |-> <<"EUR", base>>, val |-> Bars(<< <<2020, 1, 2>> >>, <<5>>)] >>,
      << [key |-> <<"EUR", base>>,
          val |-> Bars(<< <<2020, 1, 2>>, <<2020, 1, 3>> >>, <<5, 6>>)] >> }

DrawnValues ==
    { <<>>,
      << [key |-> "AAA", val |-> R(10)] >>,
      << [key |-> "AAA", val |-> R(10)], [key |-> "BBB", val |-> R(6)] >> }

DrawnCurrencyMaps ==
    { <<>>,
      << [key |-> "AAA", val |-> "USD"] >>,
      << [key |-> "AAA", val |-> "EUR"], [key |-> "BBB", val |-> "GBP"] >>,
      << [key |-> "AAA", val |-> "GBP"], [key |-> "BBB", val |-> "PLN"] >> }

InitFx ==
    /\ IdleRun
    /\ cfg \in {PortfolioConfig(1, 2)}
    /\ \E base \in {"PLN", "USD"} :
         \E fx \in DrawnFxHistories(base), date \in FxDates :
            \/ /\ pc = "call fx_to_pln"
               /\ \E currency \in FxCurrencies :
                     call = [base_currency |-> base, fx_history |-> fx, date |-> date,
                             currency |-> currency]
            \/ /\ pc = "call portfolio_to_pln"
               /\ \E values \in DrawnValues, cmap \in DrawnCurrencyMaps :
                     call = [base_currency |-> base, fx_history |-> fx, date |-> date,
                             holdings |-> values, currency_map |-> cmap]
    /\ ret = None

CallFxToPln ==
    /\ pc = "call fx_to_pln"
    /\ ret' = Some(fx_to_pln(call.base_currency, call.fx_history, call.date,
                             call.currency))
    /\ pc' = "fx_to_pln returned"
    /\ UNCHANGED WeightsFrame

CallPortfolioToPln ==
    /\ pc = "call portfolio_to_pln"
    /\ ret' = Some(portfolio_to_pln(call.base_currency, call.holdings, call.fx_history,
                                    call.date, call.currency_map))
    /\ pc' = "portfolio_to_pln returned"
    /\ UNCHANGED WeightsFrame

NextFx == CallFxToPln \/ CallPortfolioToPln

SpecFx == InitFx /\ [][NextFx]_vars

\* the bars of the pair f"{currency}{base}" dated date, in the FX history of the call
BarsAt(currency, date) ==
    LET pair == <<currency, call.base_currency>>
        history == IF HasKey(call.fx_history, pair) THEN Lookup(call.fx_history, pair)
                   ELSE <<>>
    IN  SelectSeq(history, LAMBDA bar : bar.date = date)

\* the rate the documentation gives a currency: 1 for the base currency, the close of
\* the bar of the exact date for another currency, 0 when there is none
StatedRate(currency, date) ==
    IF currency = call.base_currency THEN R(1)
    ELSE IF BarsAt(currency, date) # <<>> THEN R(BarsAt(currency, date)[1].close)
    ELSE R(0)

RECURSIVE StatedTotal(_, _, _)
StatedTotal(values, cmap, date) ==
    IF values = <<>> THEN R(0)
    ELSE LET h == Head(values)
             currency == IF HasKey(cmap, h.key) THEN Lookup(cmap, h.key)
                         ELSE call.base_currency
         IN  RAdd(RMul(h.val, StatedRate(currency, date)),
                  StatedTotal(Tail(values), cmap, date))

\* C18: fx_to_pln returns 1.0 whenever the currency is the base currency, the close
\* of the bar of the pair currency+base at the exact date when there is one, and 0.0
\* when the pair or the date is missing; portfolio_to_pln therefore counts a holding
\* in a currency without a rate as 0.
C18_FxRates ==
    /\ pc = "fx_to_pln returned" => Result = StatedRate(call.currency, call.date)
    /\ pc = "portfolio_to_pln returned"
          => Result = StatedTotal(call.holdings, call.currency_map, call.date)

\* the price the fill step resolves for an order of the day
FillPriceOf(o) ==
    IF o.price # None /\ o.price[1] # 0 THEN o.price[1]
    ELSE _get_price(price_history, o.symbol, Today)

\* the orders of the day that the fill loop has processed
Processed == SubSeq(emitted, 1, Len(emitted) - Len(orders))

\* BUY orders of distinct symbols, each with a fill price
BuyRun(os) ==
    /\ \A i \in 1..Len(os) : os[i].action = "BUY" /\ FillPriceOf(os[i]) # 0
    /\ \A i, j \in 1..Len(os) : i # j => os[i].symbol # os[j].symbol

RECURSIVE RPow(_, _)
RPow(a, k) == IF k = 0 THEN R(1) ELSE RMul(a, RPow(a, k - 1))

\* C19: the fill of a BUY creates a position of quantity cash * max_position / price
\* with entry_date the current date and deducts quantity * price from the cash; so n
\* BUYs (of distinct symbols) in a row from cash c leave the k-th position worth
\* c * m * (1 - m)^(k-1) at its fill price and the cash at c * (1 - m)^n, where m is
\* max_position.
C19_BuySizing ==
    [][ (pc = "fill" /\ orders # <<>> /\ Head(orders).action = "BUY" /\ HeadPrice # 0)
        => LET o == Head(orders)
               m == rebalance_cfg.max_position
               quantity == RDiv(RMul(capital_pln, m), R(HeadPrice))
               done == Append(Processed, o)
               n == Len(done)
           IN  /\ HasKey(holdings', o.symbol)
               /\ Lookup(holdings', o.symbol).quantity = quantity
               /\ Lookup(holdings', o.symbol).entry_date = Today
               /\ capital_pln' = RSub(capital_pln, RMul(quantity, R(HeadPrice)))
               /\ \A i \in 1..Len(holdings) :
                     holdings[i].key # o.symbol => holdings'[i] = holdings[i]
               /\ BuyRun(done)
                     => \E c \in InitialCapitals :
                           /\ capital_pln' = RMul(c, RPow(RSub(R(1), m), n))
                           /\ \A k \in 1..n :
                                 RMul(Lookup(holdings', done[k].symbol).quantity,
                                      R(FillPriceOf(done[k])))
                                     = RMul(RMul(c, m), RPow(RSub(R(1), m), k - 1)) ]_vars

\* C19 witness: from cash 100 and no holdings, a BUY of AAA at 3 and a BUY of BBB at
\* 5 have been filled: 25/3 and 15/4 units, worth 25 and 75/4, cash 225/4.
C19_Witness ==
    /\ pc = "fill"
    /\ orders = <<>>
    /\ Len(emitted) = 2
    /\ BuyRun(emitted)
    /\ Keys(holdings) = {"AAA", "BBB"}
    /\ Lookup(holdings, "AAA").quantity = [n |-> 25, d |-> 3]
    /\ Lookup(holdings, "BBB").quantity = [n |-> 15, d |-> 4]
    /\ Lookup(holdings, "BBB").entry_date = Today
    /\ capital_pln = [n |-> 225, d |-> 4]

\* C20: a SELL that passes the holding-period guard and whose symbol is held adds
\* quantity * fill price to the cash and removes the symbol from the holdings,
\* every other position staying as it was; a SELL of a symbol that is not held
\* changes neither the holdings nor the cash. (A fill needs a non-zero price.)
C20_SellFill ==
    [][ (pc = "fill" /\ orders # <<>> /\ Head(orders).action = "SELL")
        => LET o == Head(orders)
           IN  IF ~HasKey(holdings, o.symbol)
               THEN /\ holdings' = holdings
                    /\ capital_pln' = capital_pln
                    /\ currency_map' = currency_map
               ELSE (HeadPrice # 0 /\ _allow_sell(o, holdings, Today))
                    => /\ capital_pln' =
                            RAdd(capital_pln,
                                 RMul(Lookup(holdings, o.symbol).quantity, R(HeadPrice)))
                       /\ holdings' = SelectSeq(holdings, LAMBDA e : e.key # o.symbol)
                       /\ currency_map' = currency_map ]_vars

\* C20 witness: with AAA and BBB held and cash 100, a SELL of AAA (2 units at 4) has
\* been filled: cash 108, BBB still held as it was.
C20_Witness ==
    /\ HasFilled
    /\ Len(emitted) - Len(orders) = 1
    /\ Filled.action = "SELL"
    /\ Filled.symbol = "AAA"
    /\ capital_pln = R(108)
    /\ holdings = << [key |-> "BBB", val |-> HeldPosition("BBB", <<2020, 3, 22>>)] >>

\* C21: an order whose fill price resolves to 0 (no price hint and no price history
\* for its symbol) is skipped: holdings, cash and the currency map are as before the
\* order, and the fill loop goes on with the next order.
C21_ZeroPriceSkipped ==
    [][ (pc = "fill" /\ orders # <<>> /\ HeadPrice = 0)
        => /\ holdings' = holdings
           /\ capital_pln' = capital_pln
           /\ currency_map' = currency_map
           /\ orders' = Tail(orders)
           /\ pc' = "fill" ]_vars

\* C21 witness: with AAA and BBB held and no price history for BBB, a "Bear regime"
\* SELL of BBB was skipped and the SELL of AAA after it was filled.
C21_Witness ==
    /\ pc = "fill"
    /\ orders = <<>>
    /\ Len(emitted) = 2
    /\ emitted[1].action = "SELL" /\ emitted[1].symbol = "BBB"
    /\ emitted[1].reason = "Bear regime"
    /\ FillPriceOf(emitted[1]) = 0
    /\ emitted[2].action = "SELL" /\ emitted[2].symbol = "AAA"
    /\ Keys(holdings) = {"BBB"}
    /\ capital_pln = R(108)

\* the close of the latest bar of history dated on or before date, 0 if there is none
RECURSIVE KnownClose(_, _)
KnownClose(history, date) ==
    IF history = <<>> THEN 0
    ELSE LET last == history[Len(history)]
         IN  IF DateLe(last.date, date) THEN last.close
             ELSE KnownClose(SubSeq(history, 1, Len(history) - 1), date)

\* the latest close of a symbol known on the day being simulated
KnownPrice(symbol) ==
    IF HasKey(price_history, symbol)
    THEN KnownClose(Lookup(price_history, symbol), Today) ELSE 0

\* cash plus the positions marked at the latest close known on the day
RECURSIVE KnownValue(_, _)
KnownValue(h, cash) ==
    IF h = <<>> THEN cash
    ELSE RAdd(KnownValue(Tail(h), cash),
              RMul(Head(h).val.quantity, R(KnownPrice(Head(h).key))))

\* C22: on every simulated day the price used for order generation (the price hint
\* of an order), for a fill and for the valuation of a held position is the latest
\* close of the symbol dated on or before that day, never the close of a later bar.
C22_NoLookAhead ==
    [][ /\ pc = "fill"
           => \A i \in 1..Len(emitted) :
                 emitted[i].price # None
                     => emitted[i].price[1] = KnownPrice(emitted[i].symbol)
        /\ (pc = "fill" /\ orders # <<>>) => HeadPrice = KnownPrice(Head(orders).symbol)
        /\ (pc = "fill" /\ orders = <<>>)
           => MarkToMarket(holdings, capital_pln, price_history, Today)
                  = KnownValue(holdings, capital_pln) ]_vars

\* the rate of a currency to the base currency on the day: 1 for the base currency
DayRate(currency) ==
    IF currency = base_currency THEN R(1)
    ELSE fx_to_pln(base_currency, fx_history, Today, currency)

\* cash plus every priced position converted from its own currency at the day's rate
RECURSIVE ConvertedValue(_, _)
ConvertedValue(h, cash) ==
    IF h = <<>> THEN cash
    ELSE LET pos == Head(h).val
             day_price == _get_price(price_history, Head(h).key, Today)
         IN  RAdd(ConvertedValue(Tail(h), cash),
                  RMul(RMul(pos.quantity, R(day_price)), DayRate(pos.currency)))

\* C23: the value a day adds to the equity curve is in the base currency: the cash
\* plus, for every held position, quantity * mark price * the day's FX rate from the
\* currency of the position to the base currency (1 for the base currency itself).
C23_EquityInBaseCurrency ==
    [][ (pc = "fill" /\ orders = <<>>)
        => equity_curve' =
               Append(equity_curve, <<Today, ConvertedValue(holdings, capital_pln)>>) ]_vars

\* the entries of a symbol whose period is not after the year
UpToYear(entries, year) == SelectSeq(entries, LAMBDA sc : sc.period <= year)

\* the entries of a symbol that _scores_for_year may return for the year
WithMarketCap(entries, year) ==
    SelectSeq(entries, LAMBDA sc : sc.market_cap > 0 /\ sc.period <= year)

\* scores has, for every symbol of fundamentals, the entry of greatest period among
\* eligible(entries) and nothing else
OnePerSymbol(scores, eligible(_)) ==
    /\ \A i \in 1..Len(fundamentals) :
          LET own == SelectSeq(scores, LAMBDA sc : sc.symbol = fundamentals[i].key)
              el == eligible(fundamentals[i].val)
          IN  IF el = <<>> THEN own = <<>>
              ELSE /\ Len(own) = 1
                   /\ own[1] \in Range(el)
                   /\ \A j \in 1..Len(el) : el[j].period <= own[1].period
    /\ \A k \in 1..Len(scores) : HasKey(fundamentals, scores[k].symbol)

\* a day on which order generation has been called (it returned or raised)
OrdersGenerated == pc = "fill" \/ (pc = "raised" /\ ret = Some("AttributeError"))

C25_HoldBandCompletes ==
    (pc = "returned" /\ call.spy_regime = "bull" /\ call.rebalance_due) =>
        /\ IsNone(Result.exc)
        /\ \E m \in 1..3 :
               \A i \in 1..Len(call.portfolio) :
                   LET pos == call.portfolio[i].val
                       idx == PickIndex(call.picks, pos.symbol)
                       passes == /\ pos.symbol \in Range(call.top100)
                                 /\ \A k \in idx : call.picks[k].value >= cfg.min_value_score
                       outside == ~\E k \in idx :
                                      RankOf(call.picks, call.top100, k) <= m * cfg.top_n
                   IN  passes =>
                           (outside <=>
                               \E k \in 1..Len(Result.orders) :
                                   /\ Result.orders[k].symbol = pos.symbol
                                   /\ Result.orders[k].action = "SELL"
                                   /\ Result.orders[k].reason = "Below TOP3N buffer")

\* an order as generate_orders emits it for the run: its price hint, when it has
\* one, is the day's price of its symbol, and a BUY is of a symbol that is not held
AsGenerated(o) ==
    /\ IsNone(o.price) \/ o.price[1] = 0
          \/ o.price[1] = _get_price(price_history, o.symbol, Today)
    /\ o.action = "BUY" => ~HasKey(holdings, o.symbol)

\* C26: processing one order (filled, blocked by the holding-period guard or
\* skipped) leaves cash plus the held positions marked at the day's prices
\* unchanged.
C26_ValueNeutralFills ==
    [][ (pc = "fill" /\ orders # <<>> /\ AsGenerated(Head(orders)))
        => MarkToMarket(holdings', capital_pln', price_history, Today)
             = MarkToMarket(holdings, capital_pln, price_history, Today) ]_vars

\* C26 witness: a filled "Lost TOP100" SELL of AAA at 4 was followed by a BUY of
\* BBB at 5 for a quarter of the cash of 108; cash 81 and the position are worth 108.
C26_Witness ==
    /\ pc = "fill"
    /\ orders = <<>>
    /\ Len(emitted) = 2
    /\ emitted[1].action = "SELL" /\ emitted[1].symbol = "AAA"
    /\ emitted[1].reason = "Lost TOP100"
    /\ emitted[2].action = "BUY" /\ emitted[2].symbol = "BBB"
    /\ IsNone(emitted[2].price)
    /\ Keys(holdings) = {"BBB"}
    /\ capital_pln = R(81)
    /\ MarkToMarket(holdings, capital_pln, price_history, Today) = R(108)

\* C26 witness of a blocked order: a "Price below SMA200" SELL of a position
\* entered 10 days ago was processed and nothing changed
C26_WitnessBlocked ==
    /\ HasFilled
    /\ Filled.reason = "Price below SMA200"
    /\ HasKey(holdings, Filled.symbol)

\* at most one order per symbol, SELL only of a held symbol, BUY only of one not held
OnePerSymbolOrders(os, portfolio) ==
    /\ \A i, j \in 1..Len(os) : i # j => os[i].symbol # os[j].symbol
    /\ \A i \in 1..Len(os) :
           /\ os[i].action \in {"SELL", "BUY"}
           /\ os[i].action = "SELL" => os[i].symbol \in Keys(portfolio)
           /\ os[i].action = "BUY" => os[i].symbol \notin Keys(portfolio)

\* C27: for holdings keyed by their positions' symbols and picks with at most one
\* entry per symbol, the list generate_orders returns holds at most one order per
\* symbol, SELLs only of held symbols and BUYs only of symbols not held; so does
\* the list the bull branch builds for any width of the hold band.
C27_OneOrderPerSymbol ==
    pc = "returned" =>
        /\ OnePerSymbolOrders(Result.orders, call.portfolio)
        /\ call.rebalance_due =>
               \A m \in 1..3 :
                   OnePerSymbolOrders(
                       BullOrders(cfg, m, call.date, call.picks, call.top100,
                                  call.price_map, call.sma_map, call.portfolio),
                       call.portfolio)

\* C27 witness: a bear call with AAA and the bear asset held and the bear asset
\* priced has returned the single SELL of AAA.
C27_Witness ==
    /\ pc = "returned"
    /\ call.spy_regime = "bear"
    /\ call.rebalance_due
    /\ call.bear_asset = None
    /\ HeldSymbols(call.portfolio) = {"AAA", "SHV"}
    /\ Get(call.price_map, "SHV") = Some(3)
    /\ Len(Result.orders) = 1
    /\ Result.orders[1].symbol = "AAA"
    /\ Result.orders[1].action = "SELL"

\* a bull call for which the bull branch would build both a SELL and a BUY
C27_WitnessBull ==
    /\ pc = "returned"
    /\ call.spy_regime = "bull"
    /\ call.rebalance_due
    /\ LET os == BullOrders(cfg, 1, call.date, call.picks, call.top100,
                            call.price_map, call.sma_map, call.portfolio)
       IN  /\ \E i \in 1..Len(os) : os[i].action = "SELL"
           /\ \E i \in 1..Len(os) : os[i].action = "BUY"

(***************************************************************************)
(* One rebalance day of the run entered with drawn holdings                *)
(***************************************************************************)
\* AAA entered 1, 10, 89, 90 or 91 days before the day, BBB and the bear asset of
\* generate_orders held or not
BearDayHoldings ==
    {a \o b : a \in FillHoldings,
              b \in {<<>>, << [key |-> "SHV", val |-> HeldPosition("SHV", <<2020, 1, 2>>)] >>}}

\* BBB has no bar in the first history; SHV has none in the second
BearDayPrices ==
    { << [key |-> "AAA", val |-> Bars(<< <<2020, 1, 2>>, FillDate >>, <<3, 4>>)],
         [key |-> "SHV", val |-> Bars(<< FillDate >>, <<5>>)] >>,
      << [key |-> "AAA", val |-> Bars(<< <<2020, 1, 2>>, FillDate >>, <<3, 4>>)],
         [key |-> "BBB", val |-> Bars(<< <<2020, 1, 2>> >>, <<5>>)] >>,
      << [key |-> "AAA", val |-> Bars(<< <<2020, 1, 2>>, FillDate >>, <<3, 4>>)],
         [key |-> "BBB", val |-> Bars(<< FillDate >>, <<2>>)],
         [key |-> "SHV", val |-> Bars(<< FillDate >>, <<5>>)] >> }

\* the last day is the first date of a quarter; with a lookback of 2 its regime is
\* not defined in the first calendar and is bear in the second (1 < 3/2)
BearDayCalendars ==
    { << PriceBar(FillDate, 1) >>,
      << PriceBar(<<2020, 3, 31>>, 2), PriceBar(FillDate, 1) >> }

\* the state at the top of the loop on the last day of the calendar
InitBearDay ==
    /\ cfg \in {PortfolioConfig(1, 2)}
    /\ spy_prices \in BearDayCalendars
    /\ price_history \in BearDayPrices
    /\ top100_by_year \in {<<>>, << [key |-> 2020, val |-> <<"AAA", "SHV">>] >>}
    /\ contributions = <<>>
    /\ fundamentals = <<>>
    /\ base_currency \in {"PLN", "EUR"}
    /\ fx_history = <<>>
    /\ regime_map = bull_bear(cfg, spy_prices)
    /\ rebalance_dates = _quarter_starts([i \in 1..Len(spy_prices) |-> spy_prices[i].date])
    /\ equity_curve = <<>>
    /\ holdings \in BearDayHoldings
    /\ currency_map = [i \in 1..Len(holdings) |-> [key |-> holdings[i].key, val |-> "USD"]]
    /\ daily_returns = <<>>
    /\ bull_days = 0
    /\ bear_days = 0
    /\ transactions = 0
    /\ current_scores = <<>>
    /\ capital_pln \in InitialCapitals
    /\ prev_value = R(initial_capital)
    /\ day = Len(spy_prices)
    /\ regime = None
    /\ rebalance_due = FALSE
    /\ orders = <<>>
    /\ emitted = <<>>
    /\ pc = "loop"
    /\ NoCall
    /\ ret = None

NextBearDay == StartDay \/ Fill \/ CloseDay \/ Finish \/ FinishRaises

SpecBearDay == InitBearDay /\ [][NextBearDay]_vars

\* the fill step of a rebalance day without a bull regime is over, and every
\* symbol that was sold, is to be sold or is held has a positive price that day
BearDayFilled ==
    /\ pc = "fill"
    /\ orders = <<>>
    /\ rebalance_due
    /\ regime # Some("bull")
    /\ \A i \in 1..Len(emitted) :
           emitted[i].action = "SELL" =>
               _get_price(price_history, emitted[i].symbol, Today) > 0
    /\ \A s \in Keys(holdings) : _get_price(price_history, s, Today) > 0

\* C28: after the fill step of a bear-regime rebalance date on which every held
\* symbol has a positive price, the holdings contain no symbol other than the bear
\* asset designated for the base currency of the run.
C28_BearRotation ==
    (BearDayFilled /\ regime = Some("bear")) => Keys(holdings) \subseteq {BearTickerOfBase}

\* the same with the bear asset that generate_orders resolves when run passes none
C28_RotationToResolvedAsset ==
    BearDayFilled => Keys(holdings) \subseteq {bear_asset(cfg, None)[1]}

\* a bear day entered with AAA (held one day) and BBB has sold both and bought SHV
C28_RotationWitness ==
    /\ BearDayFilled
    /\ Len(emitted) = 3
    /\ emitted[1].symbol = "AAA" /\ emitted[1].action = "SELL"
    /\ emitted[2].symbol = "BBB" /\ emitted[2].action = "SELL"
    /\ emitted[3].symbol = "SHV" /\ emitted[3].action = "BUY"
    /\ Keys(holdings) = {"SHV"}

\* in exact arithmetic the cash balance is never negative, in any state of the loop
CashNeverNegativeExactly ==
    RGe(capital_pln, R(0))

\* a quarter of the initial capital was spent on the bear asset and a later
\* contribution of 20 was added to the remaining cash of 75
CashAfterBuyAndContribution ==
    /\ pc = "fill"
    /\ orders = <<>>
    /\ HasKey(holdings, "SHV")
    /\ RGt(Lookup(holdings, "SHV").quantity, R(0))
    /\ HasKey(contributions, Today)
    /\ capital_pln = R(95)

(***************************************************************************)
(* The BUY arithmetic of the fill step in binary floating point            *)
(***************************************************************************)
\* Python floats are binary floating point numbers: the result of every operation
\* is rounded to the nearest representable value, ties to the even significand.
\* The significand has MantissaBits bits here instead of the 53 of a double.
MantissaBits == 4

RECURSIVE Pow2(_)
Pow2(k) == IF k = 0 THEN 1 ELSE 2 * Pow2(k - 1)

\* n / d > 0 rounded to MantissaBits significant bits
RECURSIVE FRoundPositive(_, _)
FRoundPositive(n, d) ==
    IF n >= Pow2(MantissaBits) * d THEN RMul(R(2), FRoundPositive(n, 2 * d))
    ELSE IF n < Pow2(MantissaBits - 1) * d THEN RDiv(FRoundPositive(2 * n, d), R(2))
    ELSE LET m == n \div d
             twice_rest == 2 * (n - m * d)
         IN  IF twice_rest > d \/ (twice_rest = d /\ m % 2 = 1) THEN R(m + 1) ELSE R(m)

FRound(x) ==
    IF x.n = 0 THEN R(0)
    ELSE IF x.n < 0 THEN RSub(R(0), FRoundPositive(-x.n, x.d))
    ELSE FRoundPositive(x.n, x.d)

FMul(a, b) == FRound(RMul(a, b))
FDiv(a, b) == FRound(RDiv(a, b))
FSub(a, b) == FRound(RSub(a, b))

\* lines 122 and 132: quantity = (capital_pln * max_position) / price and
\* capital_pln -= quantity * price
FloatBuy(cash, position_share, price) ==
    LET quantity == FDiv(FMul(cash, position_share), price)
    IN  [quantity |-> quantity,
         capital_pln |-> FSub(cash, FMul(quantity, price))]

\* the integers with a significand of MantissaBits bits
SmallFloats == {R(k) : k \in 0..(Pow2(MantissaBits) - 1)}

InitCash ==
    /\ IdleRun
    /\ cfg \in {PortfolioConfig(1, 2)}
    /\ \E cash \in SmallFloats, price \in SmallFloats \ {R(0)},
          share \in {R(0), max_position, RNorm(1, 2), R(1)} :
            call = [capital_pln |-> cash, max_position |-> share, price |-> price]
    /\ pc = "call buy"
    /\ ret = None

CallFloatBuy ==
    /\ pc = "call buy"
    /\ ret' = Some(FloatBuy(call.capital_pln, call.max_position, call.price))
    /\ pc' = "buy returned"
    /\ UNCHANGED WeightsFrame

SpecCash == InitCash /\ [][CallFloatBuy]_vars

\* C29 in floating point: a BUY sized from a non-negative cash balance with
\* 0 <= max_position <= 1 at a positive price leaves a non-negative cash balance.
C29_CashNeverNegativeInFloats ==
    (/\ pc = "buy returned"
     /\ RGe(call.capital_pln, R(0))
     /\ RGe(call.max_position, R(0)) /\ RLe(call.max_position, R(1))
     /\ RGt(call.price, R(0)))
        => RGe(Result.capital_pln, R(0))

\* the orders generate_orders returns for the bear regime on the state of today
BearDayOrders ==
    generate_orders(cfg, Today, SortedPicks(current_scores), DayTop100, "bear",
                    PriceMap(price_history, DayTop100, Today),
                    sma_cache(price_history), holdings, None, TRUE).orders

====
